---- MODULE Spec2Model ----
(***************************************************************************)
(* Model of the PA-API enrichment client (src/src/pa-api-client.js):       *)
(* enrichAsins splits the requested identifiers into batches, sends one    *)
(* signed GetItems request per batch through enrichBatchWithRetry, and     *)
(* accumulates the enriched products, the failed identifiers and the       *)
(* error entries.  One action is one run-to-completion segment of the      *)
(* async code, from one await to the next.                                 *)
(***************************************************************************)
EXTENDS Integers, Sequences, FiniteSets, TLC

(* ---------------------------------------------------------------------- *)
(* Bounds of the model                                                     *)
(* ---------------------------------------------------------------------- *)
\* longest identifier list handed to enrichAsins
MaxAsins == 3
\* largest config.batchSize tried beside the default
MaxBatchSize == 2
\* largest config.retryAttempts tried
MaxRetryAttempts == 4

(* ---------------------------------------------------------------------- *)
(* Program constants: DEFAULT_CONFIG                                       *)
(* ---------------------------------------------------------------------- *)
DefaultBatchSize == 10
DefaultRetryAttempts == 3
DefaultRetryDelayMs == 1000
DefaultRequestDelayMs == 1100
\* axios timeout of one request
RequestTimeoutMs == 10000

\* how long a request may take to settle, in ms: it fails or succeeds at
\* once, or only when the timeout strikes
Latencies == {1, RequestTimeoutMs}

\* startGap of a request that has no request before it
NoGap == -1

\* product identifiers (ASINs) of the model
Ids == {"B0000000A1", "B0000000B2"}

\* an item error of the remote service may lack its Code field
NoCode == "<none>"

\* the item error the remote service reports for an identifier: with a
\* code for the first identifier, without one for the second
RemoteError(id) ==
  [ASIN |-> id,
   Code |-> IF id = "B0000000A1" THEN "ItemNotAccessible" ELSE NoCode]

(* ---------------------------------------------------------------------- *)
(* Helpers                                                                 *)
(* ---------------------------------------------------------------------- *)
Min(a, b) == IF a < b THEN a ELSE b

Range(s) == {s[i] : i \in 1..Len(s)}

Last(s) == s[Len(s)]

SeqUpTo(S, n) == UNION {[1..k -> S] : k \in 0..n}

RECURSIVE Pow2(_)
\* Math.pow(2, n) for n >= 0
Pow2(n) == IF n <= 0 THEN 1 ELSE 2 * Pow2(n - 1)

\* Array.prototype.slice(start, end) on a 0-based array, start <= length
Slice_OffByOne(s, start, end) == SubSeq(s, start + 1, Min(end - 1, Len(s)))
Slice(s, start, end) == SubSeq(s, start + 1, Min(end, Len(s)))

RECURSIVE BatchLoop(_, _, _)
\* for (let i = 0; i < asinStrings.length; i += batchSize) batches.push(slice(i, i + batchSize))
BatchLoop(s, size, i) ==
  IF i < Len(s)
    THEN <<Slice(s, i, i + size)>> \o BatchLoop(s, size, i + size)
    ELSE <<>>

SplitIntoBatches(s, size) == BatchLoop(s, size, 0)

(* ---------------------------------------------------------------------- *)
(* State                                                                   *)
(* ---------------------------------------------------------------------- *)
VARIABLES
  asins,          \* the identifiers handed to enrichAsins, in input order
  batchSize,      \* fullConfig.batchSize
  retryAttempts,  \* fullConfig.retryAttempts
  credentials,    \* "valid" or "missing": accessKey / secretKey / associateTag
  pc,             \* "start", "await", "backoff", "delay", "done", "thrown"
  batches,        \* the batches formed by enrichAsins
  batchNumber,    \* 1-based number of the batch being processed
  attempt,        \* attempt number of enrichBatchWithRetry for this batch
  enriched,       \* accumulated products
  failed,         \* accumulated failed identifiers
  errors,         \* accumulated error entries
  result,         \* the value enrichAsins resolves with (NoResult before)
  inFlight,       \* number of axios.post requests not yet settled
  requestLog,     \* requests issued for the current batch: [batch, attempt, pending]
  attemptLog,     \* responses received for the current batch, in order
  backoffLog,     \* backoff delays awaited for the current batch, in ms
  batchDelays,    \* inter-batch delays awaited so far: [after, ms]
  startGap,       \* ms between the starts of the request in flight and of the
                  \* one before it (NoGap: none in flight, or it is the first)
  outcomes,       \* per processed batch, the response enrichAsins handled
  call,           \* the synchronous library call under study: [fn, arg]
  ret             \* what that call produced (NoReturn before it has run)

vars == <<asins, batchSize, retryAttempts, credentials, pc, batches,
          batchNumber, attempt, enriched, failed, errors, result, inFlight,
          requestLog, attemptLog, backoffLog, batchDelays, startGap,
          outcomes, call, ret>>

configVars == <<asins, batchSize, retryAttempts, credentials>>

\* the variables of the synchronous library calls (parser, aggregator, feed
\* formatting), which the enrichment run leaves alone
libraryVars == <<call, ret>>

\* the variables of the enrichment run
clientVars == <<asins, batchSize, retryAttempts, credentials, pc, batches,
                batchNumber, attempt, enriched, failed, errors, result,
                inFlight, requestLog, attemptLog, backoffLog, batchDelays,
                startGap, outcomes>>

\* no library call is under study
NoCall == [fn |-> "none"]
\* the call has not run yet
NoReturn == [type |-> "pending"]

NoResult == [success |-> FALSE]

\* the message getItemsBatch reports for a failed request
TransportError == "Request failed"

(* ---------------------------------------------------------------------- *)
(* The remote service: what one GetItems request can come back with        *)
(* ---------------------------------------------------------------------- *)
\* axios.post rejected (network error, timeout, HTTP 4xx/5xx)
FailureResponse ==
  [success |-> FALSE, body |-> "none", Items |-> <<>>, Errors |-> <<>>,
   error |-> TransportError]

\* HTTP 200 whose parsed body is null / undefined
NullBodyResponse ==
  [success |-> TRUE, body |-> "null", Items |-> <<>>, Errors |-> <<>>,
   error |-> ""]

\* HTTP 200 with a body; Items / Errors are <<>> when the key is absent
ObjectResponse(items, errs) ==
  [success |-> TRUE, body |-> "object", Items |-> items, Errors |-> errs,
   error |-> ""]

\* item lists the remote may return for a batch: a prefix of the batch
\* (nothing, some, all), the batch with its first item repeated, or one
\* item that was not requested
ItemLists(batch) ==
  {SubSeq(batch, 1, k) : k \in 0..Len(batch)}
    \cup {batch \o <<batch[1]>>}
    \cup {<<x>> : x \in Ids \ Range(batch)}

\* the identifiers of the batch that are not among the returned items
Unreturned(batch, items) ==
  SelectSeq(batch, LAMBDA a : a \notin Range(items))

\* error lists the remote may return beside `items`: none at all, or one
\* entry per unreturned identifier
ErrorLists(batch, items) ==
  {<<>>,
   [i \in 1..Len(Unreturned(batch, items)) |->
      RemoteError(Unreturned(batch, items)[i])]}

Responses(batch, creds) ==
  IF creds = "missing"
    THEN {FailureResponse}
    ELSE {FailureResponse, NullBodyResponse}
           \cup UNION {{ObjectResponse(items, errs) :
                            errs \in ErrorLists(batch, items)} :
                         items \in ItemLists(batch)}

(* ---------------------------------------------------------------------- *)
(* Pure parts of the client                                                *)
(* ---------------------------------------------------------------------- *)
\* extractProductData: the product built from a response item
ExtractProductData(item) == [asin |-> item]

\* items.forEach(item => enriched.push(...))
EnrichedItems(response) ==
  [i \in 1..Len(response.Items) |-> ExtractProductData(response.Items[i])]

\* code: error.Code || 'UNKNOWN_ERROR'
ErrorCode(e) == IF e.Code = NoCode THEN "UNKNOWN_ERROR" ELSE e.Code

\* the identifiers of the item errors not recorded as failed
ItemErrorAsins_NotPushed(response) == <<>>

\* itemErrors.forEach(error => failed.push(error.ASIN))
ItemErrorAsins(response) ==
  [i \in 1..Len(response.Errors) |-> response.Errors[i].ASIN]

\* itemErrors.forEach(error => errors.push({asin, code, message}))
ItemErrorEntries(response) ==
  [i \in 1..Len(response.Errors) |->
     [asin |-> response.Errors[i].ASIN,
      code |-> ErrorCode(response.Errors[i]),
      message |-> "Item not accessible"]]

\* batch.forEach(asin => errors.push({asin, code: 'BATCH_FAILED', message}))
BatchFailedEntries_FirstOnly(batch, response) ==
  <<[asin |-> batch[1], code |-> "BATCH_FAILED", message |-> response.error]>>
BatchFailedEntries(batch, response) ==
  [i \in 1..Len(batch) |->
     [asin |-> batch[i], code |-> "BATCH_FAILED", message |-> response.error]]

\* delayMs = retryDelayMs * Math.pow(2, attempt - 1)
BackoffMs(a) == DefaultRetryDelayMs * Pow2(a - 1)

\* enrichBatchWithRetry retries when the response is no success and attempts
\* are left: if (response.success) return response; if (attempt < retryAttempts) ...
RetryNeeded_OffByOne(r, a, limit) == ~r.success /\ a <= limit
RetryNeeded_OnItemErrors(r, a, limit) ==
  (~r.success \/ r.Errors # <<>>) /\ a < limit
RetryNeeded(r, a, limit) == ~r.success /\ a < limit

\* if (batchNumber < batches.length) await delay(requestDelayMs)
DelayBeforeNext_AfterLast(n, count) == n <= count
DelayBeforeNext(n, count) == n < count

\* await axios.post(...): the request has settled when the code goes on
AwaitSettled_NotAwaited(n) == n
AwaitSettled(n) == n - 1

\* the object enrichAsins returns
BuildResult(e, f, errs, all, bs) ==
  [success |-> TRUE,
   products |-> e,
   metadata |-> [totalAsins |-> Len(all),
                 enrichedCount |-> Len(e),
                 failedCount |-> Len(f),
                 successRate |-> IF Len(all) > 0 THEN <<Len(e), Len(all)>>
                                                 ELSE <<0, 1>>,
                 batchCount |-> Len(bs)],
   failed |-> f,
   errors |-> [defined |-> Len(errs) > 0, value |-> errs]]

(* ---------------------------------------------------------------------- *)
(* Init and the steps of enrichAsins                                       *)
(* ---------------------------------------------------------------------- *)
\* twelve identifiers, for the run of 12 identifiers under DEFAULT_CONFIG
TwelveAsins ==
  [i \in 1..12 |-> IF i % 2 = 1 THEN "B0000000A1" ELSE "B0000000B2"]

\* the calls of enrichAsins that are explored: every short identifier list
\* with every small batch size and the default one, and the twelve
\* identifiers with the default batch size
Calls ==
  {<<a, b>> : a \in SeqUpTo(Ids, MaxAsins),
              b \in (1..MaxBatchSize) \cup {DefaultBatchSize}}
    \cup {<<TwelveAsins, DefaultBatchSize>>}

Init ==
  /\ \E c \in Calls : asins = c[1] /\ batchSize = c[2]
  /\ retryAttempts \in 0..MaxRetryAttempts
  /\ credentials \in {"valid", "missing"}
  /\ pc = "start"
  /\ batches = <<>>
  /\ batchNumber = 0
  /\ attempt = 0
  /\ enriched = <<>>
  /\ failed = <<>>
  /\ errors = <<>>
  /\ result = NoResult
  /\ inFlight = 0
  /\ requestLog = <<>>
  /\ attemptLog = <<>>
  /\ backoffLog = <<>>
  /\ batchDelays = <<>>
  /\ startGap = NoGap
  /\ outcomes = <<>>
  /\ call = NoCall
  /\ ret = NoReturn

\* getItemsBatch up to axios.post: the request goes out
IssueRequest(log, b, a) ==
  /\ inFlight' = inFlight + 1
  /\ requestLog' = Append(log, [batch |-> b, attempt |-> a, pending |-> inFlight])

\* the time from the start of the last request to now: that request took
\* latency ms to settle and a delay(ms) began when it did
GapAfterDelay(latency, ms) == latency + ms

\* enrichAsins from its entry to the first await
Start ==
  /\ pc = "start"
  /\ batches' = SplitIntoBatches(asins, batchSize)
  /\ IF batches' = <<>>
       THEN /\ result' = BuildResult(<<>>, <<>>, <<>>, asins, batches')
            /\ pc' = "done"
            /\ UNCHANGED <<batchNumber, attempt, inFlight, requestLog>>
       ELSE /\ batchNumber' = 1
            /\ attempt' = 1
            /\ IssueRequest(<<>>, 1, 1)
            /\ pc' = "await"
            /\ UNCHANGED result
  /\ UNCHANGED <<configVars, enriched, failed, errors, attemptLog, backoffLog,
                 batchDelays, startGap, outcomes>>
  /\ UNCHANGED libraryVars

\* enrichBatchWithRetry: the request failed and attempts are left
ResponseRetry ==
  /\ pc = "await"
  /\ \E r \in Responses(batches[batchNumber], credentials) :
       /\ RetryNeeded(r, attempt, retryAttempts)
       /\ attemptLog' = Append(attemptLog, r)
  /\ startGap' = NoGap
  /\ inFlight' = AwaitSettled(inFlight)
  /\ backoffLog' = Append(backoffLog, BackoffMs(attempt))
  /\ pc' = "backoff"
  /\ UNCHANGED <<configVars, batches, batchNumber, attempt, enriched, failed,
                 errors, result, requestLog, batchDelays, outcomes>>
  /\ UNCHANGED libraryVars

\* the backoff delay is over: enrichBatchWithRetry(asins, config, attempt + 1)
BackoffElapsed ==
  /\ pc = "backoff"
  /\ attempt' = attempt + 1
  /\ IssueRequest(requestLog, batchNumber, attempt + 1)
  /\ \E latency \in Latencies :
       startGap' = GapAfterDelay(latency, Last(backoffLog))
  /\ pc' = "await"
  /\ UNCHANGED <<configVars, batches, batchNumber, enriched, failed, errors,
                 result, attemptLog, backoffLog, batchDelays, outcomes>>
  /\ UNCHANGED libraryVars

\* the response enrichBatchWithRetry returns to enrichAsins, handled up to
\* the next await or the return
ResponseFinal ==
  /\ pc = "await"
  /\ \E r \in Responses(batches[batchNumber], credentials) :
       /\ ~RetryNeeded(r, attempt, retryAttempts)
       /\ startGap' = NoGap
       /\ inFlight' = AwaitSettled(inFlight)
       /\ attemptLog' = Append(attemptLog, r)
       /\ outcomes' = Append(outcomes, r)
       /\ IF r.success /\ r.body = "null"
            THEN \* response.data.ItemsResult throws a TypeError
                 /\ pc' = "thrown"
                 /\ UNCHANGED <<enriched, failed, errors, result, batchDelays>>
            ELSE /\ IF r.success
                      THEN /\ enriched' = enriched \o EnrichedItems(r)
                           /\ failed' = failed \o ItemErrorAsins(r)
                           /\ errors' = errors \o ItemErrorEntries(r)
                      ELSE /\ enriched' = enriched
                           /\ failed' = failed \o batches[batchNumber]
                           /\ errors' = errors \o BatchFailedEntries(batches[batchNumber], r)
                 /\ IF DelayBeforeNext(batchNumber, Len(batches))
                      THEN /\ batchDelays' = Append(batchDelays,
                                 [after |-> batchNumber, ms |-> DefaultRequestDelayMs])
                           /\ pc' = "delay"
                           /\ UNCHANGED result
                      ELSE /\ result' = BuildResult(enriched', failed', errors', asins, batches)
                           /\ pc' = "done"
                           /\ UNCHANGED batchDelays
  /\ UNCHANGED <<configVars, batches, batchNumber, attempt, requestLog, backoffLog>>
  /\ UNCHANGED libraryVars

\* the inter-batch delay is over: the loop goes on to the next batch
DelayElapsed ==
  /\ pc = "delay"
  /\ batchNumber' = batchNumber + 1
  /\ attempt' = 1
  /\ IssueRequest(<<>>, batchNumber + 1, 1)
  /\ \E latency \in Latencies :
       startGap' = GapAfterDelay(latency, Last(batchDelays).ms)
  /\ attemptLog' = <<>>
  /\ backoffLog' = <<>>
  /\ pc' = "await"
  /\ UNCHANGED <<configVars, batches, enriched, failed, errors, result,
                 batchDelays, outcomes>>
  /\ UNCHANGED libraryVars

Next ==
  \/ Start
  \/ ResponseRetry
  \/ BackoffElapsed
  \/ ResponseFinal
  \/ DelayElapsed

Spec == Init /\ [][Next]_vars

(* ---------------------------------------------------------------------- *)
(* Properties of an enrichAsins run                                        *)
(* ---------------------------------------------------------------------- *)
Max(a, b) == IF a > b THEN a ELSE b

RECURSIVE Flatten(_)
\* concatenation of a sequence of sequences
Flatten(ss) == IF ss = <<>> THEN <<>> ELSE Head(ss) \o Flatten(Tail(ss))

\* the last n elements of s
Suffix(s, n) == SubSeq(s, Len(s) - n + 1, Len(s))

\* the asin field of every product of a list
AsinsOf(products) == [i \in 1..Len(products) |-> products[i].asin]

\* ceil(n / b) for b >= 1
CeilDiv(n, b) == (n + b - 1) \div b

\* the current batch has just been handled by enrichAsins
BatchHandled == pc \in {"delay", "done"} /\ outcomes # <<>>

\* C1: when enrichAsins has returned, metadata.enrichedCount +
\* metadata.failedCount equals metadata.totalAsins, whatever the responses were.
C1_CountsReconcile ==
  pc = "done" =>
    result.metadata.enrichedCount + result.metadata.failedCount
      = result.metadata.totalAsins

\* C2: when enrichAsins has returned, every requested identifier is in exactly
\* one of result.products (by asin) and result.failed: not in both, not in
\* neither.
C2_ExactlyOneList ==
  pc = "done" =>
    \A id \in Range(asins) :
      (id \in Range(AsinsOf(result.products))) # (id \in Range(result.failed))

\* C3: at most one request is in flight at any time; every request is issued
\* when no other request is pending, a retry only after the response to the
\* previous attempt has been received, and the first request of a batch only
\* after the outcomes of all earlier batches have been recorded.
C3_OneRequestInFlight ==
  /\ inFlight \in {0, 1}
  /\ inFlight = 1 <=> pc = "await"
  /\ \A i \in 1..Len(requestLog) :
       /\ requestLog[i].pending = 0
       /\ requestLog[i].attempt = i
       /\ requestLog[i].batch = batchNumber
  /\ pc = "await" =>
       /\ Len(requestLog) = Len(attemptLog) + 1
       /\ Len(outcomes) = batchNumber - 1

\* C3 witness: the second batch is being retried, its request in flight.
C3_Witness ==
  /\ pc = "await"
  /\ batchNumber = 2
  /\ attempt = 2
  /\ inFlight = 1

\* C4: a run over k >= 1 batches awaits exactly k-1 inter-batch delays of
\* requestDelayMs: the i-th one after the outcome of batch i is recorded and
\* before the first request of batch i+1, and none after the last batch.
C4_InterBatchDelays ==
  /\ \A i \in 1..Len(batchDelays) :
       /\ batchDelays[i].after = i
       /\ batchDelays[i].ms = DefaultRequestDelayMs
  /\ pc \in {"await", "backoff"} =>
       /\ Len(batchDelays) = batchNumber - 1
       /\ Len(outcomes) = batchNumber - 1
  /\ pc = "delay" =>
       /\ Len(batchDelays) = batchNumber
       /\ Len(outcomes) = batchNumber
       /\ batchNumber < Len(batches)
  /\ (pc = "done" /\ Len(batches) >= 1) =>
       /\ Len(batchDelays) = Len(batches) - 1
       /\ Len(outcomes) = Len(batches)

\* C4 witness: 12 identifiers with batch size 10 have been enriched in 2
\* batches with one inter-batch delay.
C4_Witness ==
  /\ pc = "done"
  /\ Len(asins) = 12
  /\ batchSize = DefaultBatchSize
  /\ Len(batches) = 2
  /\ Len(outcomes) = 2
  /\ Len(batchDelays) = 1

\* C5 as stated: a batch is attempted at most retryAttempts times, the wait
\* before the n-th retry is retryDelayMs * 2^(n-1), and a retry follows a
\* failed attempt only.
C5_AtMostRetryAttempts ==
  /\ Len(requestLog) <= retryAttempts
  /\ \A n \in 1..Len(backoffLog) : backoffLog[n] = DefaultRetryDelayMs * (2 ^ (n - 1))
  /\ \A n \in 1..Len(attemptLog) :
       n < Len(requestLog) => ~attemptLog[n].success

\* C5 amended: a batch is attempted at most max(1, retryAttempts) times (one
\* attempt is made even when retryAttempts is 0); there is one backoff wait
\* per retry, the n-th being retryDelayMs * 2^(n-1); a retry follows a failed
\* attempt only; and a batch recorded as failed has used all its attempts.
C5_BoundedBackoffRetry ==
  /\ Len(requestLog) <= Max(1, retryAttempts)
  /\ \A n \in 1..Len(backoffLog) : backoffLog[n] = DefaultRetryDelayMs * (2 ^ (n - 1))
  /\ \A n \in 1..Len(attemptLog) :
       n < Len(requestLog) => ~attemptLog[n].success
  /\ pc = "await" => Len(backoffLog) = Len(requestLog) - 1
  /\ pc = "backoff" => Len(backoffLog) = Len(requestLog)
  /\ (BatchHandled /\ ~Last(outcomes).success) =>
       /\ Len(requestLog) = Max(1, retryAttempts)
       /\ Len(backoffLog) = Len(requestLog) - 1

\* C5 witness: a batch failed four times in a row under retryAttempts = 4,
\* after waits of 1 s, 2 s and 4 s.
C5_Witness ==
  /\ BatchHandled
  /\ retryAttempts = 4
  /\ ~Last(outcomes).success
  /\ Len(requestLog) = 4
  /\ backoffLog = <<1000, 2000, 4000>>

\* the identifiers of the batches whose every attempt failed, in batch order
ExhaustedBatchAsins ==
  Flatten([i \in 1..Len(outcomes) |->
             IF outcomes[i].success THEN <<>> ELSE batches[i]])

\* the items of the batches that got a response, in batch order
ReturnedItems ==
  Flatten([i \in 1..Len(outcomes) |->
             IF outcomes[i].success THEN outcomes[i].Items ELSE <<>>])

\* C6: the error entries with code BATCH_FAILED are exactly the identifiers
\* of the batches whose attempts all failed, each in failed too; such a batch
\* never makes the run throw, the loop goes on to the next batch, and the
\* products are those returned for the other batches, before and after it.
C6_ExhaustedBatchFailed ==
  /\ AsinsOf(SelectSeq(errors, LAMBDA e : e.code = "BATCH_FAILED"))
       = ExhaustedBatchAsins
  /\ \A i \in 1..Len(errors) : failed[i] = errors[i].asin
  /\ Len(failed) = Len(errors)
  /\ AsinsOf(enriched) = ReturnedItems
  /\ pc = "thrown" => Last(outcomes).success
  /\ (BatchHandled /\ ~Last(outcomes).success) =>
       pc = (IF batchNumber < Len(batches) THEN "delay" ELSE "done")
  /\ pc = "done" =>
       /\ AsinsOf(result.products) = ReturnedItems
       /\ result.failed = failed
       /\ result.errors.value = errors

\* C6 witness: of three batches the second failed on all 3 attempts, the
\* first and the third were enriched, and the run has returned.
C6_Witness ==
  /\ pc = "done"
  /\ retryAttempts = DefaultRetryAttempts
  /\ Len(outcomes) = 3
  /\ outcomes[1].success /\ outcomes[1].Items = batches[1]
  /\ ~outcomes[2].success
  /\ outcomes[3].success /\ outcomes[3].Items = batches[3]
  /\ Len(requestLog) = 1
  /\ AsinsOf(result.products) = batches[1] \o batches[3]
  /\ result.failed = batches[2]

\* C7: a response with items and item errors is final: it is the response to
\* the last request of its batch (only failed attempts precede it, no backoff
\* follows it, and it is the only request when it answers the first one), its
\* error identifiers are appended to failed with the remote code, and its
\* items are appended to the products.
C7_PartialSuccessFinal ==
  (BatchHandled /\ Last(outcomes).success) =>
    LET r == Last(outcomes)
        ne == Len(r.Errors)
        ni == Len(r.Items)
    IN /\ Last(attemptLog) = r
       /\ Len(requestLog) = Len(attemptLog)
       /\ \A n \in 1..(Len(attemptLog) - 1) : ~attemptLog[n].success
       /\ Len(backoffLog) = Len(attemptLog) - 1
       /\ attemptLog[1].success => (Len(requestLog) = 1 /\ backoffLog = <<>>)
       /\ Len(failed) >= ne /\ Len(errors) >= ne /\ Len(enriched) >= ni
       /\ \A i \in 1..ne :
            /\ Suffix(failed, ne)[i] = r.Errors[i].ASIN
            /\ Suffix(errors, ne)[i].asin = r.Errors[i].ASIN
            /\ r.Errors[i].Code # NoCode =>
                 Suffix(errors, ne)[i].code = r.Errors[i].Code
       /\ \A i \in 1..ni : Suffix(enriched, ni)[i].asin = r.Items[i]

\* C7 witness: the first request of a two-identifier batch came back with one
\* item and one item error carrying a remote code, and was recorded.
C7_Witness ==
  /\ BatchHandled
  /\ Len(requestLog) = 1
  /\ Last(outcomes).success
  /\ Len(Last(outcomes).Items) = 1
  /\ Len(Last(outcomes).Errors) = 1
  /\ Last(outcomes).Errors[1].Code = "ItemNotAccessible"
  /\ Last(errors).code = "ItemNotAccessible"
  /\ Last(failed) = Last(outcomes).Errors[1].ASIN
  /\ Last(enriched).asin = Last(outcomes).Items[1]

\* C8: enrichAsins forms ceil(N/B) batches of 1..B identifiers each, whose
\* concatenation is the input list, and requests them in that order.
C8_Batching ==
  pc # "start" =>
    /\ Len(batches) = CeilDiv(Len(asins), batchSize)
    /\ \A i \in 1..Len(batches) :
         Len(batches[i]) >= 1 /\ Len(batches[i]) <= batchSize
    /\ Flatten(batches) = asins
    /\ \A i \in 1..Len(requestLog) : requestLog[i].batch = Len(outcomes) + 1
         \/ (pc \notin {"await", "backoff"} /\ requestLog[i].batch = Len(outcomes))

\* C8 witness: three identifiers with batch size 2 were split into a batch of
\* two and a batch of one, and the second batch has been requested.
C8_Witness ==
  /\ pc = "await"
  /\ Len(asins) = 3
  /\ batchSize = 2
  /\ batches = <<SubSeq(asins, 1, 2), SubSeq(asins, 3, 3)>>
  /\ batchNumber = 2

\* C9: enrichAsins never throws: no response makes the run stop before it has
\* processed every batch and returned its result.
C9_NeverThrows == pc # "thrown"

\* C10: with missing credentials no request is sent and no backoff delay is
\* awaited.
C10_NoRequestWithoutCredentials ==
  credentials = "missing" => (requestLog = <<>> /\ backoffLog = <<>>)

\* C11: the starts of two consecutive request attempts, a retry of the same
\* batch or the first request of the next batch, are at least requestDelayMs
\* apart.
C11_StartsRequestDelayApart ==
  startGap # NoGap => startGap >= DefaultRequestDelayMs

(* ====================================================================== *)
(* Sale information: extractProductData (src/src/pa-api-client.js) and     *)
(* formatProduct (the feed generator, src/src/aws-signature-v4.js).       *)
(* Objects are functions from field names to JavaScript values; amounts   *)
(* are counted in cents.                                                   *)
(* ====================================================================== *)
\* largest small amount, in cents, tried for a price or a list price
MaxAmount == 3
\* the documented example: price 29.99 with list price 49.99
ExamplePrice == 2999
ExampleListPrice == 4999
ExampleDiscountAmount == 2000
ExampleDiscountPercentage == 40

Undefined == [type |-> "undefined"]
Null == [type |-> "null"]
Num(n) == [type |-> "number", n |-> n]
Bool(b) == [type |-> "boolean", b |-> b]
Str(s) == [type |-> "string", s |-> s]

\* ToBoolean of a value
Truthy(v) ==
  CASE v.type \in {"undefined", "null"} -> FALSE
    [] v.type = "number" -> v.n # 0
    [] v.type = "boolean" -> v.b
    [] v.type = "string" -> v.s # ""
    [] OTHER -> TRUE

\* object.key: undefined when the object has no such key
Get(object, key) == IF key \in DOMAIN object THEN object[key] ELSE Undefined

\* value || fallback
OrElse(value, fallback) == IF Truthy(value) THEN value ELSE fallback

\* Math.round(num / den * 100) for den > 0: the nearest integer, halves up
RoundPercent(num, den) == (200 * num + den) \div (2 * den)

SaleFields ==
  {"is_on_sale", "original_price", "discount_amount", "discount_percentage"}

\* a field that has a value in the JSON written from the object
IsSet(object, key) == Get(object, key) \notin {Undefined, Null}

Amounts == (0..MaxAmount) \cup {ExamplePrice, ExampleListPrice}

\* item.Offers?.Listings?.[0]?.Price?.Amount and ...SavingBasis?.Amount of
\* the items handed to extractProductData
AmountValues == {Undefined} \cup {Num(a) : a \in Amounts}

Items ==
  [ASIN : {"B0000000A1"},
   Title : {Undefined, Str("Desk Lamp")},
   Price : AmountValues,
   SavingBasis : AmountValues]

\* the condition under which the sale block of extractProductData runs
SaleBlockRuns(savingBasis, price) == Truthy(savingBasis) /\ Truthy(price)

\* extractProductData: the fields the sale and merge rules read
ExtractProduct(item) ==
  LET price == IF item.Price = Undefined THEN Null ELSE item.Price
      savingBasis == item.SavingBasis
      runs == SaleBlockRuns(savingBasis, price)
      originalPrice == savingBasis.n
      discountAmount == originalPrice - price.n
      discountPercentage == RoundPercent(discountAmount, originalPrice)
      isOnSale == runs /\ discountAmount > 0
      base == [asin |-> Str(item.ASIN),
               title |-> OrElse(item.Title, Str("Unknown Product")),
               price |-> price,
               currency |-> Str("USD"),
               image_url |-> OrElse(Get(item, "ImageURL"), Null),
               link |-> OrElse(Get(item, "DetailPageURL"),
                               Str("https://www.amazon.com/dp/")),
               availability |-> OrElse(Get(item, "Availability"),
                                       Str("Unknown"))]
  IN  IF isOnSale
        THEN [is_on_sale |-> Bool(TRUE),
              original_price |-> Num(originalPrice),
              discount_amount |-> Num(discountAmount),
              discount_percentage |-> Num(discountPercentage)] @@ base
        ELSE base

\* formatProduct: fields copied as they are
CopiedFields == {"asin", "price", "image_url", "rank"}
\* formatProduct: fields with a fallback value
FormatDefaults ==
  [title |-> Str("Unknown Product"),
   currency |-> Str("USD"),
   link |-> Str("https://www.amazon.com/dp/"),
   ordered_items |-> Num(0),
   shipped_revenue |-> Num(0),
   earnings |-> Num(0),
   clicks |-> Num(0),
   conversion_rate |-> Num(0)]
\* formatProduct: fields spread when they are !== undefined
IfDefinedFields ==
  {"items_shipped", "revenue_per_click", "epc", "average_order_value"}
\* formatProduct: fields spread when they are truthy
IfTruthyFields == {"cluster", "availability", "tags", "tag"}

FormatProduct(product) ==
  LET copied == [k \in CopiedFields |-> Get(product, k)]
      defaulted == [k \in DOMAIN FormatDefaults |->
                      OrElse(Get(product, k), FormatDefaults[k])]
      ifDefined == [k \in {f \in IfDefinedFields : Get(product, f) # Undefined}
                      |-> product[k]]
      ifTruthy == [k \in {f \in IfTruthyFields : Truthy(Get(product, f))}
                      |-> product[k]]
      sale == [k \in {f \in SaleFields : Truthy(Get(product, "is_on_sale"))}
                      |-> Get(product, k)]
  IN  sale @@ ifTruthy @@ ifDefined @@ defaulted @@ copied

\* object with only the keys in keep
Restrict(object, keep) == [k \in DOMAIN object \cap keep |-> object[k]]

\* the products handed to formatProduct: what extractProductData returns,
\* and products of other callers with any subset of the sale fields
FullSaleProduct ==
  [asin |-> Str("B0000000A1"), price |-> Num(ExamplePrice),
   is_on_sale |-> Bool(TRUE), original_price |-> Num(ExampleListPrice),
   discount_amount |-> Num(ExampleDiscountAmount),
   discount_percentage |-> Num(ExampleDiscountPercentage)]

FormatInputs ==
  {ExtractProduct(i) : i \in Items}
    \cup {Restrict(FullSaleProduct, {"asin", "price"} \cup keep) :
            keep \in SUBSET SaleFields}
    \cup {[Restrict(FullSaleProduct, {"asin", "price"} \cup keep)
             EXCEPT !["is_on_sale"] = Bool(FALSE)] :
            keep \in {k \in SUBSET SaleFields : "is_on_sale" \in k}}

SaleCalls ==
  {[fn |-> "extractProductData", arg |-> i] : i \in Items}
    \cup {[fn |-> "formatProduct", arg |-> p] : p \in FormatInputs}

Returned(value) == [type |-> "returned", value |-> value]

\* the enrichment run is not part of a library call
ClientIdle ==
  /\ asins = <<>>
  /\ batchSize = DefaultBatchSize
  /\ retryAttempts = DefaultRetryAttempts
  /\ credentials = "valid"
  /\ pc = "idle"
  /\ batches = <<>>
  /\ batchNumber = 0
  /\ attempt = 0
  /\ enriched = <<>>
  /\ failed = <<>>
  /\ errors = <<>>
  /\ result = NoResult
  /\ inFlight = 0
  /\ requestLog = <<>>
  /\ attemptLog = <<>>
  /\ backoffLog = <<>>
  /\ batchDelays = <<>>
  /\ startGap = NoGap
  /\ outcomes = <<>>

InitSale ==
  /\ ClientIdle
  /\ call \in SaleCalls
  /\ ret = NoReturn

ExtractProductDataCall ==
  /\ call.fn = "extractProductData"
  /\ ret = NoReturn
  /\ ret' = Returned(ExtractProduct(call.arg))
  /\ UNCHANGED <<call, clientVars>>

FormatProductCall ==
  /\ call.fn = "formatProduct"
  /\ ret = NoReturn
  /\ ret' = Returned(FormatProduct(call.arg))
  /\ UNCHANGED <<call, clientVars>>

NextSale == ExtractProductDataCall \/ FormatProductCall

SpecSale == InitSale /\ [][NextSale]_vars

SaleFieldsSet(object) == {k \in SaleFields : IsSet(object, k)}

\* C12: every product returned by extractProductData or formatProduct has
\* all four sale fields set or none of them.
C12_SaleFieldsAllOrNothing ==
  (call.fn \in {"extractProductData", "formatProduct"} /\ ret # NoReturn)
    => SaleFieldsSet(ret.value) \in {{}, SaleFields}

\* C13: extractProductData attaches the sale fields exactly when a list price
\* is present and strictly above the current price, with original_price the
\* list price, discount_amount = listPrice - price and discount_percentage the
\* rounded share; otherwise no sale field is present.
C13_SaleExactlyWhenListAbovePrice ==
  (call.fn = "extractProductData" /\ ret # NoReturn) =>
    LET price == call.arg.Price
        listPrice == call.arg.SavingBasis
        product == ret.value
    IN  IF /\ listPrice.type = "number"
           /\ price.type = "number"
           /\ listPrice.n > price.n
          THEN /\ Get(product, "is_on_sale") = Bool(TRUE)
               /\ Get(product, "original_price") = listPrice
               /\ Get(product, "discount_amount") = Num(listPrice.n - price.n)
               /\ Get(product, "discount_percentage") =
                    Num(RoundPercent(listPrice.n - price.n, listPrice.n))
          ELSE DOMAIN product \cap SaleFields = {}

(* ====================================================================== *)
(* enrichAsins given product objects: the enriched attributes are merged   *)
(* onto the input object with the same asin (pa-api-client.js 221-230 and  *)
(* 258-267).                                                               *)
(* ====================================================================== *)
\* longest list of products or identifiers handed to enrichAsins
MaxProducts == 2
\* most items in the response that is merged
MaxItems == 1

\* typeof value
TypeOf(value) == IF "type" \in DOMAIN value THEN value.type ELSE "object"

\* the fields the aggregator gives a product
AggregatorFields ==
  {"rank", "ordered_items", "shipped_revenue", "earnings", "clicks",
   "conversion_rate", "revenue_per_click", "epc", "average_order_value",
   "tag", "tags"}

\* the fields extractProductData gives a product
RemoteFields ==
  {"asin", "title", "price", "currency", "image_url", "link", "availability"}
    \cup SaleFields

\* aggregated products as aggregateAndRank returns them
AggregatedInputs ==
  {[asin |-> Str(id), rank |-> Num(r), ordered_items |-> Num(n)] @@ more :
     id \in Ids, r \in {1}, n \in {0, MaxProducts},
     more \in {<<>>, [tag |-> Str("site-20")]}}

\* what the elements of the asins argument may be
AsinArguments == AggregatedInputs \cup {Str(id) : id \in Ids}

\* the items of the response that is merged
MergeItems ==
  [ASIN : Ids,
   Title : {Undefined},
   Price : {Undefined, Num(ExamplePrice)},
   SavingBasis : {Undefined, Num(ExampleListPrice)}]

\* asinMap left empty
AsinMap_NeverBuilt(asinsArg) == <<>>

\* asinMap: filled only when the first element is an object; a later element
\* with the same asin replaces the earlier one
AsinMap(asinsArg) ==
  IF asinsArg # <<>> /\ TypeOf(asinsArg[1]) = "object"
    THEN [key \in {Get(asinsArg[i], "asin") : i \in DOMAIN asinsArg} |->
            LET at == {i \in DOMAIN asinsArg : Get(asinsArg[i], "asin") = key}
            IN  asinsArg[CHOOSE i \in at : \A j \in at : j <= i]]
    ELSE <<>>

\* the product pushed to enriched for one returned item
MergeWithOriginal(asinMap, productData) ==
  IF productData["asin"] \in DOMAIN asinMap
    THEN productData @@ asinMap[productData["asin"]]
    ELSE productData

\* items.forEach(...) of enrichAsins for one response
MergeItemsOfResponse(asinsArg, items) ==
  [i \in DOMAIN items |->
     MergeWithOriginal(AsinMap(asinsArg), ExtractProduct(items[i]))]

\* the calls explored: every short asins argument with every short response
InitMerge ==
  /\ ClientIdle
  /\ ret = NoReturn
  /\ \E a \in SeqUpTo(AsinArguments, MaxProducts) :
       \E i \in SeqUpTo(MergeItems, MaxItems) :
         call = [fn |-> "enrichAsins", arg |-> [asins |-> a, items |-> i]]

\* the merge of one response into enriched
EnrichAsinsMerge ==
  /\ call.fn = "enrichAsins"
  /\ ret = NoReturn
  /\ ret' = Returned(MergeItemsOfResponse(call.arg.asins, call.arg.items))
  /\ UNCHANGED <<call, clientVars>>

NextMerge == EnrichAsinsMerge

SpecMerge == InitMerge /\ [][NextMerge]_vars

\* enrichAsins is given aggregated products: objects with distinct asins
GivenAggregatedProducts(asinsArg) ==
  /\ asinsArg # <<>>
  /\ \A i \in DOMAIN asinsArg : TypeOf(asinsArg[i]) = "object"
  /\ \A i, j \in DOMAIN asinsArg :
       asinsArg[i]["asin"] = asinsArg[j]["asin"] => i = j

\* C14: given aggregated product objects, every enriched product keeps every
\* aggregator field of the input product with the same asin, its value
\* unchanged; enrichment only adds or sets remote attributes.
C14_MergeKeepsAggregatorFields ==
  (call.fn = "enrichAsins" /\ ret # NoReturn
     /\ GivenAggregatedProducts(call.arg.asins)) =>
    \A e \in Range(ret.value) : \A o \in Range(call.arg.asins) :
      o["asin"] = e["asin"] =>
        /\ \A k \in DOMAIN o \cap AggregatorFields : Get(e, k) = o[k]
        /\ \A k \in DOMAIN o \ RemoteFields : Get(e, k) = o[k]
        /\ DOMAIN e \subseteq DOMAIN o \cup RemoteFields

C14_Witness ==
  /\ call.fn = "enrichAsins"
  /\ ret # NoReturn
  /\ GivenAggregatedProducts(call.arg.asins)
  /\ \E e \in Range(ret.value) : \E o \in Range(call.arg.asins) :
       /\ o["asin"] = e["asin"]
       /\ "tag" \in DOMAIN o
       /\ IsSet(e, "is_on_sale")
       /\ Get(e, "ordered_items") = Num(MaxProducts)

(* ====================================================================== *)
(* The aggregator (src/src/asin-aggregator.js): aggregateByAsin.           *)
(* Line items and products are records of integers (counts, and amounts in *)
(* whole currency units); a derived rate is a fraction <<num, den>> in     *)
(* lowest terms, 0 being <<0, 1>>.                                         *)
(* ====================================================================== *)
\* longest list of line items handed to the aggregator
MaxLineItems == 3

RECURSIVE GCD(_, _)
GCD(a, b) == IF b = 0 THEN a ELSE GCD(b, a % b)

\* num / den as a fraction in lowest terms, for num >= 0 and den > 0
Fraction(num, den) == <<num \div GCD(num, den), den \div GCD(num, den)>>

Zero == <<0, 1>>

\* den > 0 ? num / den : 0
Rate(num, den) == IF den > 0 THEN Fraction(num, den) ELSE Zero

\* the rows of the reports aggregated, by product: the first product is
\* sold under both tags, rows without clicks and without orders occur
Tags == {"site-20", "blog-20"}

LineItems ==
  {[asin |-> "B0000000A1", tag |-> t] @@ p :
     t \in Tags,
     p \in {[ordered_items |-> 5, shipped_revenue |-> 10, earnings |-> 1,
             clicks |-> 0],
            [ordered_items |-> 3, shipped_revenue |-> 50, earnings |-> 4,
             clicks |-> 6]}}
    \cup
  {[asin |-> "B0000000B2", tag |-> "site-20"] @@ p :
     p \in {[ordered_items |-> 10, shipped_revenue |-> 50, earnings |-> 2,
             clicks |-> 20],
            [ordered_items |-> 0, shipped_revenue |-> 0, earnings |-> 0,
             clicks |-> 3]}}

\* object without one key (delete object.key)
Without(object, key) == [k \in DOMAIN object \ {key} |-> object[k]]

\* existing.tag of a product that has none
UndefinedTag == "<undefined>"

TagOf(product) ==
  IF "tag" \in DOMAIN product THEN product.tag ELSE UndefinedTag

\* aggregateByAsin, "Track tags if multiple"
TrackTags(existing, product) ==
  IF TagOf(product) \notin {UndefinedTag, ""} /\ TagOf(product) # TagOf(existing)
    THEN LET started ==
               IF "tags" \in DOMAIN existing
                 THEN existing
                 ELSE [tags |-> <<TagOf(existing)>>] @@ Without(existing, "tag")
         IN  IF product.tag \in Range(started.tags)
               THEN started
               ELSE [started EXCEPT !.tags = Append(@, product.tag)]
    ELSE existing

\* the sums replaced by the values of the last line item
Combine_LastWins(existing, product) ==
  TrackTags([existing EXCEPT !.ordered_items = product.ordered_items,
                             !.shipped_revenue = product.shipped_revenue,
                             !.earnings = product.earnings,
                             !.clicks = product.clicks],
            product)

\* aggregateByAsin, "Aggregate existing ASIN"
Combine(existing, product) ==
  LET summed == [existing EXCEPT !.ordered_items = @ + product.ordered_items,
                                 !.shipped_revenue = @ + product.shipped_revenue,
                                 !.earnings = @ + product.earnings,
                                 !.clicks = @ + product.clicks]
      shipped ==
        IF "items_shipped" \in DOMAIN product
          THEN [items_shipped |->
                  (IF "items_shipped" \in DOMAIN existing
                     THEN existing.items_shipped ELSE 0) + product.items_shipped]
                 @@ summed
          ELSE summed
  IN  TrackTags(shipped, product)

\* one turn of products.forEach: asinMap in insertion order
AggregateStep(asinMap, product) ==
  LET at == {i \in DOMAIN asinMap : asinMap[i].asin = product.asin}
  IN  IF at # {}
        THEN [i \in DOMAIN asinMap |->
                IF i \in at THEN Combine(asinMap[i], product) ELSE asinMap[i]]
        ELSE Append(asinMap, product)

RECURSIVE AggregateLoop(_, _)
AggregateLoop(asinMap, products) ==
  IF products = <<>>
    THEN asinMap
    ELSE AggregateLoop(AggregateStep(asinMap, Head(products)), Tail(products))

\* aggregateByAsin, "calculate derived metrics"
DerivedMetrics(product) ==
  [conversion_rate |-> Rate(product.ordered_items, product.clicks),
   revenue_per_click |-> Rate(product.shipped_revenue, product.clicks),
   average_order_value |-> Rate(product.shipped_revenue, product.ordered_items),
   epc |-> Rate(product.earnings, product.clicks)] @@ product

AggregateByAsin(products) ==
  LET asinMap == AggregateLoop(<<>>, products)
  IN  [i \in DOMAIN asinMap |-> DerivedMetrics(asinMap[i])]

\* the elements of a list at the positions in keep, in order
RECURSIVE SubList(_, _)
SubList(list, keep) ==
  IF list = <<>>
    THEN <<>>
    ELSE LET rest == SubList(SubSeq(list, 1, Len(list) - 1), keep)
         IN  IF Len(list) \in keep THEN Append(rest, Last(list)) ELSE rest

\* the two partitions of a list aggregated one by one, and their results
\* aggregated together
AggregatePartitions(products, first) ==
  AggregateByAsin(
    AggregateByAsin(SubList(products, first))
      \o AggregateByAsin(SubList(products, DOMAIN products \ first)))

LineItemLists == SeqUpTo(LineItems, MaxLineItems)

\* the calls explored: every short list of line items, aggregated at once
\* and in every split into two partitions
InitAggregate ==
  /\ ClientIdle
  /\ ret = NoReturn
  /\ \E l \in LineItemLists :
       \/ call = [fn |-> "aggregateByAsin", arg |-> l]
       \/ \E f \in SUBSET DOMAIN l :
            call = [fn |-> "aggregateByAsin twice",
                    arg |-> [products |-> l, first |-> f]]

AggregateByAsinCall ==
  /\ call.fn = "aggregateByAsin"
  /\ ret = NoReturn
  /\ ret' = Returned(AggregateByAsin(call.arg))
  /\ UNCHANGED <<call, clientVars>>

\* aggregateByAsin over each of two partitions, then over the two results
AggregatePartitionsCall ==
  /\ call.fn = "aggregateByAsin twice"
  /\ ret = NoReturn
  /\ ret' = Returned(AggregatePartitions(call.arg.products, call.arg.first))
  /\ UNCHANGED <<call, clientVars>>

NextAggregate == AggregateByAsinCall \/ AggregatePartitionsCall

SpecAggregate == InitAggregate /\ [][NextAggregate]_vars

\* the sum of one field over the line items with one identifier
RECURSIVE SumOver(_, _, _)
SumOver(products, asin, field) ==
  IF products = <<>>
    THEN 0
    ELSE (IF Head(products).asin = asin THEN Head(products)[field] ELSE 0)
           + SumOver(Tail(products), asin, field)

SummedFields == {"ordered_items", "shipped_revenue", "earnings", "clicks"}

\* C17: aggregateByAsin returns exactly one product per distinct identifier
\* of its input, with ordered_items, shipped_revenue, earnings and clicks the
\* sums over the line items with that identifier, and the derived rates
\* computed from the final sums, a division by zero giving 0.
C17_OneProductPerAsinWithSums ==
  (call.fn = "aggregateByAsin" /\ ret # NoReturn) =>
    LET out == ret.value
    IN  /\ {out[i].asin : i \in DOMAIN out} = {p.asin : p \in Range(call.arg)}
        /\ \A i, j \in DOMAIN out : out[i].asin = out[j].asin => i = j
        /\ \A i \in DOMAIN out :
             LET sum(f) == SumOver(call.arg, out[i].asin, f)
             IN  /\ \A f \in SummedFields : out[i][f] = sum(f)
                 /\ out[i].conversion_rate =
                      IF sum("clicks") = 0 THEN Zero
                      ELSE Fraction(sum("ordered_items"), sum("clicks"))
                 /\ out[i].revenue_per_click =
                      IF sum("clicks") = 0 THEN Zero
                      ELSE Fraction(sum("shipped_revenue"), sum("clicks"))
                 /\ out[i].epc =
                      IF sum("clicks") = 0 THEN Zero
                      ELSE Fraction(sum("earnings"), sum("clicks"))
                 /\ out[i].average_order_value =
                      IF sum("ordered_items") = 0 THEN Zero
                      ELSE Fraction(sum("shipped_revenue"), sum("ordered_items"))

\* identifiers A1, A1, B2 with ordered items 5, 3, 10 give 2 products with
\* A1.ordered_items = 8, the first product with clicks 0 + 6
C17_Witness ==
  /\ call.fn = "aggregateByAsin"
  /\ ret # NoReturn
  /\ Len(call.arg) = 3
  /\ [i \in 1..3 |-> call.arg[i].asin]
       = <<"B0000000A1", "B0000000A1", "B0000000B2">>
  /\ [i \in 1..3 |-> call.arg[i].ordered_items] = <<5, 3, 10>>
  /\ Len(ret.value) = 2
  /\ ret.value[1].asin = "B0000000A1"
  /\ ret.value[1].ordered_items = 8
  /\ ret.value[1].conversion_rate = <<4, 3>>

\* the tags collected for a product
TagsOf(product) ==
  IF "tags" \in DOMAIN product THEN Range(product.tags)
  ELSE IF "tag" \in DOMAIN product THEN {product.tag} ELSE {}

\* a product as the claim compares it: sums, derived metrics, collected tags
Compared(product) ==
  [asin |-> product.asin,
   sums |-> [f \in SummedFields |-> product[f]],
   rates |-> <<product.conversion_rate, product.revenue_per_click,
               product.average_order_value, product.epc>>,
   tags |-> TagsOf(product)]

\* C18: for any split of a list of line items into two partitions,
\* aggregating each partition and then aggregating the two results together
\* yields the same products, with the same sums, derived metrics and
\* collected tags, as aggregating the whole list directly.
C18_AggregationAssociative ==
  (call.fn = "aggregateByAsin twice" /\ ret # NoReturn) =>
    {Compared(p) : p \in Range(ret.value)}
      = {Compared(p) : p \in Range(AggregateByAsin(call.arg.products))}

(* ====================================================================== *)
(* The aggregator: rankProducts, filterProducts, aggregateAndRank, and the *)
(* ranking of Pipedream step 4 (src/unnamed/part_002).                     *)
(* ====================================================================== *)
\* largest topN tried
MaxTopN == 2
\* parseInt(process.env.FEED_TOP_N) || 100
DefaultTopN == 100

\* Object.keys(RANKING_STRATEGIES)
RankingKeys ==
  <<"ordered_items", "shipped_revenue", "earnings", "conversion_rate",
    "revenue_per_click">>

\* the keys every object literal inherits from Object.prototype that hold a
\* function: RANKING_STRATEGIES[key] is truthy for them
InheritedKeys == {"constructor", "toString", "valueOf", "hasOwnProperty"}

\* the rankBy values tried: the five strategies, a name that is no property
\* at all, and an inherited one
RankByValues == Range(RankingKeys) \cup {"price", "constructor"}

\* the metrics that are fractions
RateKeys ==
  {"conversion_rate", "revenue_per_click", "average_order_value", "epc"}

\* product[key] as a fraction
MetricOf(product, key) ==
  IF key \in RateKeys THEN product[key] ELSE <<product[key], 1>>

\* the sign of what the comparator returns for (a, b): b[key] - a[key]; a
\* comparator that is no strategy (an inherited function) returns NaN, which
\* sort takes as 0
Compare(comparator, a, b) ==
  IF comparator \in Range(RankingKeys)
    THEN MetricOf(b, comparator)[1] * MetricOf(a, comparator)[2]
           - MetricOf(a, comparator)[1] * MetricOf(b, comparator)[2]
    ELSE 0

\* the greatest element of a non-empty set of numbers
Greatest(S) == CHOOSE x \in S : \A y \in S : y <= x

\* the element put before the elements it is equal to
SortedInsert_BeforeEquals(sorted, product, comparator) ==
  LET before == {j \in DOMAIN sorted : Compare(comparator, sorted[j], product) < 0}
      p == IF before = {} THEN 0 ELSE Greatest(before)
  IN  SubSeq(sorted, 1, p) \o <<product>> \o SubSeq(sorted, p + 1, Len(sorted))

\* Array.prototype.sort is stable: a later element goes behind every element
\* that the comparator does not put after it
SortedInsert(sorted, product, comparator) ==
  LET before == {j \in DOMAIN sorted : Compare(comparator, sorted[j], product) <= 0}
      p == IF before = {} THEN 0 ELSE Greatest(before)
  IN  SubSeq(sorted, 1, p) \o <<product>> \o SubSeq(sorted, p + 1, Len(sorted))

\* [...products].sort(comparator)
RECURSIVE Sort(_, _)
Sort(products, comparator) ==
  IF products = <<>>
    THEN <<>>
    ELSE SortedInsert(Sort(SubSeq(products, 1, Len(products) - 1), comparator),
                      Last(products), comparator)

\* ranked.forEach((product, index) => { product.rank = index + 1 })
AssignRanks(ranked) == [i \in DOMAIN ranked |-> [rank |-> i] @@ ranked[i]]

Thrown(message) == [type |-> "thrown", message |-> message]

\* the Error rankProducts throws
InvalidStrategy(rankBy) ==
  [text |-> "Invalid ranking strategy", rankBy |-> rankBy,
   available |-> RankingKeys]

\* RANKING_STRATEGIES[rankBy] is truthy
HasStrategy(rankBy) == rankBy \in Range(RankingKeys) \cup InheritedKeys

\* rankProducts: the value returned or the error thrown
RankProducts(products, rankBy) ==
  IF ~HasStrategy(rankBy)
    THEN Thrown(InvalidStrategy(rankBy))
    ELSE Returned(AssignRanks(Sort(products, rankBy)))

\* the input array after rankProducts has run: its objects are those of the
\* returned array, so they carry the ranks
InputAfterRanking(products, ranked) ==
  [i \in DOMAIN products |->
     ranked[CHOOSE j \in DOMAIN ranked : ranked[j].asin = products[i].asin]]

\* a >= b for fractions
AtLeast(a, b) == a[1] * b[2] >= b[1] * a[2]

\* filterProducts
FilterProducts(products, filters) ==
  LET Keep(p) ==
        /\ "minOrderedItems" \in DOMAIN filters =>
             p.ordered_items >= filters.minOrderedItems
        /\ "minRevenue" \in DOMAIN filters =>
             p.shipped_revenue >= filters.minRevenue
        /\ "minEarnings" \in DOMAIN filters => p.earnings >= filters.minEarnings
        /\ "minConversionRate" \in DOMAIN filters =>
             AtLeast(p.conversion_rate, filters.minConversionRate)
        /\ "minClicks" \in DOMAIN filters => p.clicks >= filters.minClicks
        /\ "excludeAsins" \in DOMAIN filters => p.asin \notin filters.excludeAsins
        /\ "includeAsins" \in DOMAIN filters => p.asin \in filters.includeAsins
  IN  SelectSeq(products, Keep)

\* topN ? ranked.slice(0, topN) : ranked, for topN absent (null) or >= 0
TakeTop(ranked, options) ==
  IF "topN" \in DOMAIN options /\ options.topN # 0
    THEN SubSeq(ranked, 1, Min(options.topN, Len(ranked)))
    ELSE ranked

RECURSIVE Total(_, _)
Total(products, field) ==
  IF products = <<>> THEN 0
  ELSE Head(products)[field] + Total(Tail(products), field)

\* aggregateAndRank: the object it returns
AggregateAndRank(products, options) ==
  LET rankBy == IF "rankBy" \in DOMAIN options THEN options.rankBy
                                               ELSE "ordered_items"
      filters == IF "filters" \in DOMAIN options THEN options.filters ELSE <<>>
      aggregated == AggregateByAsin(products)
      filtered == FilterProducts(aggregated, filters)
      ranked == RankProducts(filtered, rankBy)
      topProducts == TakeTop(ranked.value, options)
      totalOrderedItems == Total(topProducts, "ordered_items")
      totalRevenue == Total(topProducts, "shipped_revenue")
      totalEarnings == Total(topProducts, "earnings")
      totalClicks == Total(topProducts, "clicks")
  IN  IF ranked.type = "thrown"
        THEN [success |-> FALSE, error |-> ranked.message, products |-> <<>>,
              metadata |-> <<>>]
        ELSE [success |-> TRUE,
              products |-> topProducts,
              metadata |->
                [totalProducts |-> Len(aggregated),
                 filteredProducts |-> Len(filtered),
                 returnedProducts |-> Len(topProducts),
                 rankingMetric |-> rankBy,
                 topN |-> IF "topN" \in DOMAIN options /\ options.topN # 0
                            THEN Num(options.topN) ELSE Str("all"),
                 summary |->
                   [totalOrderedItems |-> totalOrderedItems,
                    totalRevenue |-> totalRevenue,
                    totalEarnings |-> totalEarnings,
                    totalClicks |-> totalClicks,
                    avgOrderedItems |-> Rate(totalOrderedItems, Len(topProducts)),
                    avgRevenue |-> Rate(totalRevenue, Len(topProducts)),
                    avgEarnings |-> Rate(totalEarnings, Len(topProducts)),
                    avgConversionRate |-> Rate(totalOrderedItems, totalClicks),
                    avgRevenuePerClick |-> Rate(totalRevenue, totalClicks),
                    avgEPC |-> Rate(totalEarnings, totalClicks)]]]

\* Pipedream step 4, the keys of rankingFunctions
PipedreamRankingKeys ==
  {"ordered_items", "shipped_revenue", "earnings", "conversion_rate"}

\* Pipedream step 4, "Aggregate by ASIN": sums only
PipedreamAggregateStep(asinMap, product) ==
  [i \in DOMAIN asinMap |->
     IF asinMap[i].asin = product.asin
       THEN [asinMap[i] EXCEPT !.ordered_items = @ + product.ordered_items,
                               !.shipped_revenue = @ + product.shipped_revenue,
                               !.earnings = @ + product.earnings,
                               !.clicks = @ + product.clicks]
       ELSE asinMap[i]]
    \o (IF \E i \in DOMAIN asinMap : asinMap[i].asin = product.asin
          THEN <<>> ELSE <<product>>)

RECURSIVE PipedreamAggregateLoop(_, _)
PipedreamAggregateLoop(asinMap, products) ==
  IF products = <<>>
    THEN asinMap
    ELSE PipedreamAggregateLoop(PipedreamAggregateStep(asinMap, Head(products)),
                                Tail(products))

\* Pipedream step 4: rankingFunctions[rankBy] || rankingFunctions.ordered_items
PipedreamComparator(rankBy) ==
  IF rankBy \in PipedreamRankingKeys \cup InheritedKeys THEN rankBy
                                                       ELSE "ordered_items"

\* Pipedream step 4: what run returns
PipedreamAggregateAndRank(products, rankBy) ==
  LET asinMap == PipedreamAggregateLoop(<<>>, products)
      aggregated ==
        [i \in DOMAIN asinMap |->
           [conversion_rate |-> Rate(asinMap[i].ordered_items, asinMap[i].clicks),
            revenue_per_click |-> Rate(asinMap[i].shipped_revenue, asinMap[i].clicks),
            epc |-> Rate(asinMap[i].earnings, asinMap[i].clicks)] @@ asinMap[i]]
      ranked == AssignRanks(Sort(aggregated, PipedreamComparator(rankBy)))
  IN  [products |-> SubSeq(ranked, 1, Min(DefaultTopN, Len(ranked))),
       totalProducts |-> Len(aggregated),
       rankingMetric |-> rankBy]

\* the line items ranked: those of one tag, and a third product that ties
\* with the first on ordered items and on revenue
RankLineItems ==
  {item \in LineItems : item.tag = "site-20"}
    \cup {[asin |-> "B0000000C3", tag |-> "site-20", ordered_items |-> 5,
           shipped_revenue |-> 10, earnings |-> 4, clicks |-> 20]}

RankLineItemLists == SeqUpTo(RankLineItems, MaxLineItems)

FilterChoices == {<<>>, [minOrderedItems |-> 5]}

\* the options of aggregateAndRank that are tried
OptionChoices ==
  {base @@ top :
     base \in {[filters |-> f] : f \in FilterChoices}
                \cup {[rankBy |-> r, filters |-> f] :
                        r \in {"shipped_revenue", "price"}, f \in FilterChoices},
     top \in {<<>>} \cup {[topN |-> n] : n \in 0..MaxTopN}}

\* the calls explored: rankProducts on aggregated line items, aggregateAndRank
\* and the Pipedream step on the line items
InitRank ==
  /\ ClientIdle
  /\ ret = NoReturn
  /\ \E l \in RankLineItemLists :
       \/ \E r \in RankByValues :
            call = [fn |-> "rankProducts",
                    arg |-> [products |-> AggregateByAsin(l), rankBy |-> r]]
       \/ \E o \in OptionChoices :
            call = [fn |-> "aggregateAndRank",
                    arg |-> [products |-> l, options |-> o]]
       \/ \E r \in RankByValues :
            call = [fn |-> "Pipedream step 4",
                    arg |-> [products |-> l, rankBy |-> r]]
       \/ \E r, t \in Range(RankingKeys) :
            /\ r # t
            /\ call = [fn |-> "rankProducts twice",
                       arg |-> [products |-> AggregateByAsin(l),
                                rankBy |-> r, thenBy |-> t]]

RankProductsCall ==
  /\ call.fn = "rankProducts"
  /\ ret = NoReturn
  /\ ret' = RankProducts(call.arg.products, call.arg.rankBy)
  /\ UNCHANGED <<call, clientVars>>

\* rankProducts called again with the same array and the same rankBy
RankProductsRepeat ==
  /\ call.fn = "rankProducts"
  /\ ret.type = "returned"
  /\ ret' = [type |-> "repeated",
             first |-> ret.value,
             value |-> RankProducts(
                         InputAfterRanking(call.arg.products, ret.value),
                         call.arg.rankBy).value]
  /\ UNCHANGED <<call, clientVars>>

\* rankProducts called with rankBy, then again on the same array with thenBy:
\* what the first call returned, and the first list, the second list and the
\* input array after the second call.  The copies [...products] are new
\* arrays of the same objects, so product.rank = index + 1 of the second call
\* is seen through all three.
RankProductsTwice ==
  /\ call.fn = "rankProducts twice"
  /\ ret = NoReturn
  /\ LET first == RankProducts(call.arg.products, call.arg.rankBy).value
         second == RankProducts(InputAfterRanking(call.arg.products, first),
                                call.arg.thenBy).value
     IN  ret' = Returned([first |-> first,
                          second |-> second,
                          firstAfter |-> InputAfterRanking(first, second),
                          input |-> InputAfterRanking(call.arg.products, second)])
  /\ UNCHANGED <<call, clientVars>>

AggregateAndRankCall ==
  /\ call.fn = "aggregateAndRank"
  /\ ret = NoReturn
  /\ ret' = Returned(AggregateAndRank(call.arg.products, call.arg.options))
  /\ UNCHANGED <<call, clientVars>>

PipedreamStep4 ==
  /\ call.fn = "Pipedream step 4"
  /\ ret = NoReturn
  /\ ret' = Returned(PipedreamAggregateAndRank(call.arg.products, call.arg.rankBy))
  /\ UNCHANGED <<call, clientVars>>

NextRank ==
  \/ RankProductsCall
  \/ RankProductsRepeat
  \/ RankProductsTwice
  \/ AggregateAndRankCall
  \/ PipedreamStep4

SpecRank == InitRank /\ [][NextRank]_vars

\* position of a returned product in the array handed to rankProducts
InputPosition(product) ==
  CHOOSE i \in DOMAIN call.arg.products :
    call.arg.products[i].asin = product.asin

\* C15: rankProducts returns the products in non-increasing order of the
\* selected metric with rank = position (1..n, no gaps, no duplicates);
\* products with equal metric values keep their insertion order, and repeating
\* the run on the same input and rankBy gives identical rank assignments.
C15_RankedDescendingStable ==
  (call.fn = "rankProducts" /\ call.arg.rankBy \in Range(RankingKeys)
     /\ ret # NoReturn) =>
    LET out == ret.value
        metric(p) == MetricOf(p, call.arg.rankBy)
    IN  /\ ret.type \in {"returned", "repeated"}
        /\ Len(out) = Len(call.arg.products)
        /\ {out[i].asin : i \in DOMAIN out}
             = {p.asin : p \in Range(call.arg.products)}
        /\ \A i \in DOMAIN out : out[i].rank = i
        /\ \A i, j \in DOMAIN out :
             i < j =>
               /\ AtLeast(metric(out[i]), metric(out[j]))
               /\ metric(out[i]) = metric(out[j]) =>
                    InputPosition(out[i]) < InputPosition(out[j])
        /\ ret.type = "repeated" => out = ret.first

\* three products ranked a second time, two of them tied, the first of the
\* input not the first of the ranking
C15_Witness ==
  /\ call.fn = "rankProducts"
  /\ call.arg.rankBy = "shipped_revenue"
  /\ ret.type = "repeated"
  /\ Len(ret.value) = 3
  /\ ret.value[1].asin # call.arg.products[1].asin
  /\ \E i \in 1..2 :
       ret.value[i].shipped_revenue = ret.value[i + 1].shipped_revenue

\* C16: aggregateAndRank with topN = N supplied returns exactly the first
\* min(N, filtered count) entries of the full ranked filtered list, with the
\* rank values of that full list.
C16_TopNIsPrefixOfFullRanking ==
  (call.fn = "aggregateAndRank" /\ ret # NoReturn
     /\ "topN" \in DOMAIN call.arg.options
     /\ ret.value.success) =>
    LET full == AggregateAndRank(call.arg.products,
                                 Without(call.arg.options, "topN")).products
    IN  ret.value.products
          = SubSeq(full, 1, Min(call.arg.options.topN, Len(full)))

\* C19: ranking with a key outside the five valid ones returns no ranked
\* products and an error that names the valid keys; it never ranks by a
\* default metric.
C19_InvalidRankByFailsFast ==
  /\ (call.fn = "rankProducts" /\ ret # NoReturn
        /\ call.arg.rankBy \notin Range(RankingKeys)) =>
       /\ ret.type = "thrown"
       /\ ret.message.available = RankingKeys
  /\ (call.fn = "aggregateAndRank" /\ ret # NoReturn
        /\ "rankBy" \in DOMAIN call.arg.options
        /\ call.arg.options.rankBy \notin Range(RankingKeys)) =>
       /\ ~ret.value.success
       /\ ret.value.products = <<>>
       /\ ret.value.error.available = RankingKeys
  /\ (call.fn = "Pipedream step 4" /\ ret # NoReturn
        /\ call.arg.rankBy \notin Range(RankingKeys)) =>
       ret.value.products = <<>>

(* ====================================================================== *)
(* The report parser (src/src/aa-csv-parser.js, the copy with XLSX         *)
(* support): parseFile, parseCSV, parseCSVString.  A parsed file is its    *)
(* header row and its data rows; a row maps each header to a cell.         *)
(* ====================================================================== *)
\* COLUMN_MAPPINGS, the roles that mapRowToProduct or the validation reads
COLUMN_MAPPINGS ==
  [asin |-> <<"asin", "product asin", "product_asin", "linking asin">>,
   orderedItems |-> <<"ordered items", "ordered_items", "items ordered",
                      "qty ordered", "quantity ordered", "qty",
                      "items shipped", "items_shipped">>,
   shippedRevenue |-> <<"shipped revenue", "shipped_revenue", "revenue",
                        "shipped earnings", "product revenue", "revenue($)",
                        "revenue ($)">>,
   earnings |-> <<"earnings", "publisher earnings", "commission",
                  "your earnings", "affiliate earnings", "ad fees",
                  "ad fees($)", "ad fees ($)">>,
   clicks |-> <<"clicks", "link clicks", "click count", "total clicks">>,
   conversionRate |-> <<"conversion rate", "conversion_rate", "conversion">>,
   itemsShipped |-> <<"items shipped", "items_shipped", "shipped items",
                      "qty shipped">>,
   tag |-> <<"tag", "tracking id", "tracking_id", "associate tag">>]

\* Object.entries(COLUMN_MAPPINGS), in order
MappedFields ==
  <<"asin", "orderedItems", "shippedRevenue", "earnings", "clicks",
    "conversionRate", "itemsShipped", "tag">>

\* the headers a report may have, in column order
HeaderOrder ==
  <<"ASIN", "Ordered Items", "Items Shipped", "Revenue", "Earnings", "Clicks",
    "Category">>

\* header.toLowerCase().trim()
LowerTrim(header) ==
  CASE header = "ASIN" -> "asin"
    [] header = "Ordered Items" -> "ordered items"
    [] header = "Items Shipped" -> "items shipped"
    [] header = "Revenue" -> "revenue"
    [] header = "Earnings" -> "earnings"
    [] header = "Clicks" -> "clicks"
    [] header = "Category" -> "category"

\* findColumn returns null
NoColumn == "<null>"

\* findColumn: the header matching the first of possibleNames that matches
RECURSIVE FindColumn(_, _)
FindColumn(headers, possibleNames) ==
  IF possibleNames = <<>>
    THEN NoColumn
    ELSE LET at == {i \in DOMAIN headers :
                      LowerTrim(headers[i]) = Head(possibleNames)}
         IN  IF at # {}
               THEN headers[CHOOSE i \in at : \A j \in at : i <= j]
               ELSE FindColumn(headers, Tail(possibleNames))

\* "Build column map"
ColumnMap(headers) ==
  [field \in {f \in Range(MappedFields) :
                FindColumn(headers, COLUMN_MAPPINGS[f]) # NoColumn} |->
     FindColumn(headers, COLUMN_MAPPINGS[field])]

\* requiredFields of parseCSV and of parseFile
RequiredFields == <<"asin", "orderedItems", "shippedRevenue", "earnings">>

\* requiredFields of parseCSVString
RequiredFieldsOfString ==
  <<"asin", "orderedItems", "shippedRevenue", "earnings", "clicks">>

\* requiredFields.filter(field => !columnMap[field])
MissingFields(requiredFields, columnMap) ==
  LET Missing(field) == field \notin DOMAIN columnMap
  IN  SelectSeq(requiredFields, Missing)

\* the Error thrown for missing required columns
MissingColumns(missingFields, headers) ==
  [text |-> "Missing required columns", missing |-> missingFields,
   available |-> headers]

\* row[column] of a column the row or the map does not have
UndefinedCell == "<undefined>"

Cell(row, columnMap, field) ==
  IF field \in DOMAIN columnMap /\ columnMap[field] \in DOMAIN row
    THEN row[columnMap[field]]
    ELSE UndefinedCell

\* parseNumber of mapRowToProduct on the cells that occur
ParseNumber(value) ==
  CASE value = "5" -> 5
    [] value = "4" -> 4
    [] value = "12" -> 12
    [] value = "10" -> 10
    [] value = "$1,234" -> 1234
    [] OTHER -> 0

\* isValidASIN on the cells that occur: /^[B0-9][A-Z0-9]{9}$/i ignores case
IsValidASIN(asin) == asin \in {"B0000000A1", "B0000000B2", "b0000000a1"}

\* mapRowToProduct returns null
NoProduct == [asin |-> "<null>"]

\* mapRowToProduct: asin?.trim() leaves the cells that occur as they are
MapRowToProduct(row, columnMap) ==
  LET number(field) == ParseNumber(Cell(row, columnMap, field))
      product == [asin |-> Cell(row, columnMap, "asin"),
                  ordered_items |-> number("orderedItems"),
                  shipped_revenue |-> number("shippedRevenue"),
                  earnings |-> number("earnings"),
                  clicks |-> number("clicks")]
      shipped == IF "itemsShipped" \in DOMAIN columnMap
                   THEN [items_shipped |-> number("itemsShipped")]
                   ELSE <<>>
      rate == IF "conversionRate" \in DOMAIN columnMap
                THEN [conversion_rate |-> <<number("conversionRate"), 1>>]
                ELSE IF product.clicks > 0 /\ product.ordered_items > 0
                       THEN [conversion_rate |->
                               Fraction(product.ordered_items, product.clicks)]
                       ELSE <<>>
      tagged == IF "tag" \in DOMAIN columnMap
                  THEN [tag |-> Cell(row, columnMap, "tag")]
                  ELSE <<>>
  IN  IF ~IsValidASIN(Cell(row, columnMap, "asin"))
        THEN NoProduct
        ELSE tagged @@ rate @@ shipped @@ product

\* "Parse rows": the products, and the errors kept unless skipInvalidRows
\* (row: i + 2 for the 0-based i is the 1-based position + 1)
ParseRows(rows, columnMap, skipInvalidRows) ==
  LET mapped == [i \in DOMAIN rows |-> MapRowToProduct(rows[i], columnMap)]
      Valid(product) == product # NoProduct
      Invalid(i) == mapped[i] = NoProduct
  IN  [products |-> SelectSeq(mapped, Valid),
       errors |->
         IF skipInvalidRows
           THEN <<>>
           ELSE [k \in DOMAIN SelectSeq([i \in DOMAIN rows |-> i], Invalid) |->
                   [row |-> SelectSeq([i \in DOMAIN rows |-> i], Invalid)[k] + 1,
                    error |-> "Invalid or missing ASIN"]]]

\* the object a successful parse returns
ParseSuccess(rows, parsed, columnMap) ==
  [success |-> TRUE,
   products |-> parsed.products,
   metadata |->
     [totalRows |-> Len(rows),
      validProducts |-> Len(parsed.products),
      invalidRows |-> Len(rows) - Len(parsed.products),
      uniqueAsins |-> Cardinality({p.asin : p \in Range(parsed.products)}),
      totalOrderedItems |-> Total(parsed.products, "ordered_items"),
      totalRevenue |-> Total(parsed.products, "shipped_revenue"),
      totalEarnings |-> Total(parsed.products, "earnings"),
      totalClicks |-> Total(parsed.products, "clicks"),
      averageConversionRate |-> Rate(Total(parsed.products, "ordered_items"),
                                     Total(parsed.products, "clicks")),
      columnMapping |-> columnMap],
   errors |-> parsed.errors]

\* the object parseCSV and parseFile return for a failure
ParseFailure(error) ==
  [success |-> FALSE, error |-> error, products |-> <<>>, metadata |-> <<>>]

\* what a call leaves behind: the value returned or the error thrown, and
\* the console.warn lines
Outcome(type, value, warnings) ==
  [type |-> type, value |-> value, warnings |-> warnings]

ClicksWarning == "Clicks column not found"

\* parseCSV and the xlsx branch of parseFile from "Build column map" on
ValidateAndParse(headers, rows, skipInvalidRows) ==
  LET columnMap == ColumnMap(headers)
      missingFields == MissingFields(RequiredFields, columnMap)
  IN  IF missingFields # <<>>
        THEN Outcome("thrown", MissingColumns(missingFields, headers), <<>>)
        ELSE Outcome("returned",
                     ParseSuccess(rows, ParseRows(rows, columnMap, skipInvalidRows),
                                  columnMap),
                     IF "clicks" \in DOMAIN columnMap THEN <<>>
                                                      ELSE <<ClicksWarning>>)

\* the options a caller passes: none, or skipInvalidRows either way
ParseOptions ==
  {<<>>, [skipInvalidRows |-> Bool(TRUE)], [skipInvalidRows |-> Bool(FALSE)]}

\* const { skipInvalidRows = true } = options
SkipInvalidRowsOrDefault(options) ==
  IF Get(options, "skipInvalidRows") = Undefined
    THEN TRUE
    ELSE Get(options, "skipInvalidRows").b

\* parseCSV: the try block catches the error and returns a failure
ParseCSV(file, options) ==
  LET outcome == ValidateAndParse(file.headers, file.rows,
                                  SkipInvalidRowsOrDefault(options))
  IN  IF outcome.type = "thrown"
        THEN Outcome("returned", ParseFailure(outcome.value), outcome.warnings)
        ELSE outcome

\* parseFile: by format; the xlsx branch reads options.skipInvalidRows as it
\* is, undefined for the default options
ParseFile(file, options) ==
  CASE file.format = "csv" -> ParseCSV(file, options)
    [] file.format = "xlsx" ->
         IF file.rows = <<>>
           THEN Outcome("returned", ParseFailure("XLSX file is empty"), <<>>)
           ELSE ValidateAndParse(file.headers, file.rows,
                                 Truthy(Get(options, "skipInvalidRows")))
    [] OTHER -> Outcome("thrown", "Unsupported file format", <<>>)

\* parseCSVString
ParseCSVString(file) ==
  LET columnMap == ColumnMap(file.headers)
      missingFields == MissingFields(RequiredFieldsOfString, columnMap)
  IN  IF missingFields # <<>>
        THEN Outcome("thrown", MissingColumns(missingFields, file.headers), <<>>)
        ELSE Outcome("returned",
                     [k \in {"success", "products", "metadata"} |->
                        ParseSuccess(file.rows,
                                     ParseRows(file.rows, columnMap, TRUE),
                                     columnMap)[k]],
                     <<>>)

\* POST /api/parse, then POST /api/aggregate with the products parsed
ParseThenAggregate(file) ==
  LET parsed == ParseFile(file, <<>>)
  IN  IF parsed.type = "returned" /\ parsed.value.success
        THEN Outcome("returned",
                     [success |-> TRUE,
                      products |-> parsed.value.products,
                      aggregated |-> AggregateByAsin(parsed.value.products)],
                     parsed.warnings)
        ELSE parsed

\* most data rows of a file
MaxRows == 2

\* the cells of the data rows: a row of a product, the same product with its
\* identifier in lower case, a second product, the totals row and a row
\* whose identifier cell is empty
ProductRow ==
  [h \in Range(HeaderOrder) |->
     CASE h = "ASIN" -> "B0000000A1"
       [] h = "Ordered Items" -> "5"
       [] h = "Items Shipped" -> "4"
       [] h = "Revenue" -> "$1,234"
       [] h = "Earnings" -> "12"
       [] h = "Clicks" -> "10"
       [] h = "Category" -> "Home"]

LowerCaseRow == [ProductRow EXCEPT !["ASIN"] = "b0000000a1"]

SecondProductRow == [ProductRow EXCEPT !["ASIN"] = "B0000000B2"]

TotalsRow == [ProductRow EXCEPT !["ASIN"] = "Total"]

EmptyAsinRow == [ProductRow EXCEPT !["ASIN"] = ""]

DataRows ==
  {ProductRow, LowerCaseRow, SecondProductRow, TotalsRow, EmptyAsinRow}

\* the files with the given data rows: any subset of the headers as header
\* row, in any format
FilesWith(rows) ==
  {[format |-> f,
    headers |-> LET Has(h) == h \in present IN SelectSeq(HeaderOrder, Has),
    rows |-> [i \in DOMAIN rows |-> [h \in present |-> rows[i][h]]]] :
     f \in {"csv", "xlsx", "txt"},
     present \in SUBSET Range(HeaderOrder)}

InitParse ==
  /\ ClientIdle
  /\ ret = NoReturn
  /\ \E rows \in SeqUpTo(DataRows, MaxRows) :
       \E file \in FilesWith(rows) :
         \/ \E options \in ParseOptions :
              \/ call = [fn |-> "parseFile", arg |-> file, options |-> options]
              \/ file.format = "csv"
                   /\ call = [fn |-> "parseCSV", arg |-> file,
                              options |-> options]
         \/ file.format = "csv"
              /\ call = [fn |-> "parseCSVString", arg |-> file]
         \/ file.format # "txt"
              /\ call = [fn |-> "parseFile then aggregateByAsin", arg |-> file]

ParseFileCall ==
  /\ call.fn = "parseFile"
  /\ ret = NoReturn
  /\ ret' = ParseFile(call.arg, call.options)
  /\ UNCHANGED <<call, clientVars>>

ParseCSVCall ==
  /\ call.fn = "parseCSV"
  /\ ret = NoReturn
  /\ ret' = ParseCSV(call.arg, call.options)
  /\ UNCHANGED <<call, clientVars>>

ParseCSVStringCall ==
  /\ call.fn = "parseCSVString"
  /\ ret = NoReturn
  /\ ret' = ParseCSVString(call.arg)
  /\ UNCHANGED <<call, clientVars>>

ParseThenAggregateCall ==
  /\ call.fn = "parseFile then aggregateByAsin"
  /\ ret = NoReturn
  /\ ret' = ParseThenAggregate(call.arg)
  /\ UNCHANGED <<call, clientVars>>

NextParse ==
  \/ ParseFileCall
  \/ ParseCSVCall
  \/ ParseCSVStringCall
  \/ ParseThenAggregateCall

SpecParse == InitParse /\ [][NextParse]_vars

\* the roles of a list that no header of the file resolves
Unresolved(roles, headers) ==
  {role \in Range(roles) :
     \A h \in Range(headers) :
       LowerTrim(h) \notin Range(COLUMN_MAPPINGS[role])}

\* the parse failed: an error thrown, or a result without success
ParseFailed == ret.type = "thrown" \/ ~ret.value.success

ParseError == IF ret.type = "thrown" THEN ret.value ELSE ret.value.error

\* C20: parsing fails, with an error naming every unresolved required role
\* and all available headers, exactly when one of the four required roles
\* (asin, orderedItems, shippedRevenue, earnings) cannot be resolved; a file
\* whose only unresolved role is clicks parses successfully, clicks being 0
\* and a warning emitted, through parseFile, parseCSV and parseCSVString.
C20_RequiredRolesOrError ==
  (call.fn \in {"parseFile", "parseCSV", "parseCSVString"} /\ ret # NoReturn
     /\ call.arg.format \in {"csv", "xlsx"}
     /\ (call.arg.format = "xlsx" => call.arg.rows # <<>>)) =>
    LET unresolved == Unresolved(RequiredFields, call.arg.headers)
    IN  IF unresolved # {}
          THEN /\ ParseFailed
               /\ Range(ParseError.missing) = unresolved
               /\ ParseError.available = call.arg.headers
          ELSE /\ ~ParseFailed
               /\ Unresolved(<<"clicks">>, call.arg.headers) # {} =>
                    /\ \A p \in Range(ret.value.products) : p.clicks = 0
                    /\ ret.warnings # <<>>

\* the identifier cells of the data rows of the file parsed, in input order
IdentifierCells ==
  [i \in DOMAIN call.arg.rows |-> Cell(call.arg.rows[i],
                                       [asin |-> "ASIN"], "asin")]

\* the 1-based positions of the data rows with an invalid or empty identifier
DroppedRows ==
  LET Dropped(i) == ~IsValidASIN(IdentifierCells[i])
  IN  SelectSeq([i \in DOMAIN call.arg.rows |-> i], Dropped)

\* a parseCSV or parseFile call on a supported file with a header for each
\* required role has returned
ParsedWithRows ==
  /\ call.fn \in {"parseFile", "parseCSV"}
  /\ ret # NoReturn
  /\ call.arg.format \in {"csv", "xlsx"}
  /\ call.arg.rows # <<>>
  /\ Unresolved(RequiredFields, call.arg.headers) = {}

\* C21: parseCSV and parseFile drop a row with an invalid or empty identifier
\* without failing the parse; the dropped rows are recorded in errors, each
\* with its row number (the header being row 1) and reason, only when the
\* caller passed skipInvalidRows: false, and not with default options; the
\* valid rows are output in input order in both modes.
C21_InvalidRowsDroppedRecordedOnlyWhenStrict ==
  ParsedWithRows =>
    /\ ret.type = "returned"
    /\ ret.value.success
    /\ [i \in DOMAIN ret.value.products |-> ret.value.products[i].asin]
         = SelectSeq(IdentifierCells, IsValidASIN)
    /\ ret.value.errors
         = IF Get(call.options, "skipInvalidRows") = Bool(FALSE)
             THEN [k \in DOMAIN DroppedRows |->
                     [row |-> DroppedRows[k] + 1,
                      error |-> "Invalid or missing ASIN"]]
             ELSE <<>>

\* asin.toUpperCase() on the identifiers that occur
UpperCase(asin) == IF asin = "b0000000a1" THEN "B0000000A1" ELSE asin

\* C22: identifiers are case-normalized before validation and use: two rows
\* whose identifiers differ only in letter case produce line items with the
\* same asin value, and aggregateByAsin aggregates them into one product.
C22_IdentifiersCaseNormalized ==
  (call.fn = "parseFile then aggregateByAsin" /\ ret # NoReturn
     /\ ret.type = "returned" /\ ret.value.success) =>
    LET products == ret.value.products
        aggregated == ret.value.aggregated
    IN  /\ \A i, j \in DOMAIN products :
             UpperCase(products[i].asin) = UpperCase(products[j].asin)
               => products[i].asin = products[j].asin
        /\ \A i, j \in DOMAIN aggregated :
             UpperCase(aggregated[i].asin) = UpperCase(aggregated[j].asin)
               => i = j

(* ====================================================================== *)
(* The feed generator (src/src/aws-signature-v4.js, lines 286-705):        *)
(* filterSalesOnly, generateMetadata, generateFeed, generateFeedStrings,   *)
(* and the Slack notifier's createSuccessNotification                      *)
(* (src/unnamed/part_006).  Products are objects of JavaScript values;     *)
(* counts and sums of the metadata are integers, its averages fractions.   *)
(* ====================================================================== *)
\* longest list of products handed to the feed generator
MaxFeedProducts == 2
\* most identifiers that the enrichment before the feed reports as failed
MaxFailed == 1

\* a fraction as a JavaScript number
Ratio(fraction) == [type |-> "number", n |-> fraction[1], d |-> fraction[2]]

\* the products handed to the feed generator: enriched products with their
\* aggregator fields, on sale and not, one of them without a price
FeedProducts ==
  {[asin |-> Str("B0000000A1"), price |-> Num(ExamplePrice),
    is_on_sale |-> Bool(TRUE), original_price |-> Num(ExampleListPrice),
    discount_amount |-> Num(ExampleDiscountAmount),
    discount_percentage |-> Num(ExampleDiscountPercentage),
    ordered_items |-> Num(3), shipped_revenue |-> Num(50),
    earnings |-> Num(4), clicks |-> Num(6)],
   [asin |-> Str("B0000000B2"), price |-> Num(1500),
    is_on_sale |-> Bool(TRUE), original_price |-> Num(2000),
    discount_amount |-> Num(500), discount_percentage |-> Num(25),
    ordered_items |-> Num(5), shipped_revenue |-> Num(10),
    earnings |-> Num(1), clicks |-> Num(0)],
   [asin |-> Str("B0000000C3"), price |-> Num(1000),
    ordered_items |-> Num(10), shipped_revenue |-> Num(50),
    earnings |-> Num(2), clicks |-> Num(20)],
   [asin |-> Str("B0000000D4"), price |-> Null, is_on_sale |-> Bool(FALSE),
    ordered_items |-> Num(1), shipped_revenue |-> Num(7),
    earnings |-> Num(0), clicks |-> Num(3)]}

\* metadata of the enrichAsins result whose products are handed on, with
\* count further identifiers failed
EnrichmentMetadata(products, count) ==
  BuildResult(products, [i \in 1..count |-> "B0000000F9"], <<>>,
              [i \in 1..(Len(products) + count) |-> "B0000000A1"],
              <<>>).metadata

\* the products kept although not on sale
FilterSalesOnly_KeepsAll(products) == products

\* filterSalesOnly: products.filter(p => p.is_on_sale === true)
FilterSalesOnly(products) ==
  LET OnSale(p) == Get(p, "is_on_sale") = Bool(TRUE)
  IN  SelectSeq(products, OnSale)

\* products.reduce((sum, p) => sum + (p[key] || 0), 0)
RECURSIVE SumOrZero(_, _)
SumOrZero(products, key) ==
  IF products = <<>>
    THEN 0
    ELSE OrElse(Get(Head(products), key), Num(0)).n
           + SumOrZero(Tail(products), key)

\* enrichmentMetadata?.[key] || fallback, for a count
CountOrElse(enrichmentMetadata, key, fallback) ==
  IF enrichmentMetadata # Undefined /\ enrichmentMetadata[key] # 0
    THEN enrichmentMetadata[key]
    ELSE fallback

\* enrichmentMetadata?.successRate || fallback
RateOrElse(enrichmentMetadata, fallback) ==
  IF enrichmentMetadata # Undefined /\ enrichmentMetadata.successRate[1] # 0
    THEN Ratio(enrichmentMetadata.successRate)
    ELSE fallback

\* generateMetadata: the counts, sums and averages of the metadata
GenerateMetadata(products, options) ==
  LET Priced(p) == Truthy(Get(p, "price"))
      priced == SelectSeq(products, Priced)
      OnSale(p) == Truthy(Get(p, "is_on_sale"))
      saleProducts == SelectSeq(products, OnSale)
      enrichmentMetadata == Get(options, "enrichmentMetadata")
      totalOrders == SumOrZero(products, "ordered_items")
      totalClicks == SumOrZero(products, "clicks")
  IN  [total_asins |-> Len(products),
       ranking_metric |-> OrElse(Get(options, "rankingMetric"),
                                 Str("ordered_items")),
       enrichment_success_rate |-> RateOrElse(enrichmentMetadata, Null),
       enriched_count |->
         CountOrElse(enrichmentMetadata, "enrichedCount", Len(products)),
       failed_count |-> CountOrElse(enrichmentMetadata, "failedCount", 0),
       summary |->
         [total_revenue |-> SumOrZero(products, "shipped_revenue"),
          total_earnings |-> SumOrZero(products, "earnings"),
          total_orders |-> totalOrders,
          total_clicks |-> totalClicks,
          average_price |-> Rate(SumOrZero(priced, "price"), Len(priced)),
          average_conversion_rate |-> Rate(totalOrders, totalClicks)],
       sales |->
         [total_on_sale |-> Len(saleProducts),
          sale_percentage |-> Rate(Len(saleProducts) * 100, Len(products)),
          average_discount_percentage |->
            Rate(SumOrZero(saleProducts, "discount_percentage"),
                 Len(saleProducts))]]

\* JSON.stringify of a list of objects: a key whose value is undefined is
\* left out
Stringify(objects) ==
  [i \in DOMAIN objects |->
     [k \in {f \in DOMAIN objects[i] : objects[i][f] # Undefined} |->
        objects[i][k]]]

\* the products formatted for the feed: "Filter to sales-only if requested",
\* then formatProduct on each
FormattedProducts(products, options) ==
  LET filteredProducts == IF Truthy(Get(options, "salesOnly"))
                            THEN FilterSalesOnly(products)
                            ELSE products
  IN  [i \in DOMAIN filteredProducts |-> FormatProduct(filteredProducts[i])]

\* the options generateFeed and generateFeedStrings hand to generateMetadata
MetadataOptions(options) ==
  Restrict(options, {"reportDate", "rankingMetric", "publisherName",
                     "credentialName", "associateTag", "enrichmentMetadata"})

\* an empty feed reported as a failure
StringsResult_EmptyFails(formattedProducts, metadata) ==
  IF formattedProducts = <<>>
    THEN [success |-> FALSE, error |-> "No products"]
    ELSE [success |-> TRUE,
          feed |-> Stringify(formattedProducts),
          metadata |-> metadata,
          productCount |-> Len(formattedProducts)]

\* the object generateFeedStrings returns
StringsResult(formattedProducts, metadata) ==
  [success |-> TRUE,
   feed |-> Stringify(formattedProducts),
   metadata |-> metadata,
   productCount |-> Len(formattedProducts)]

\* generateFeedStrings
GenerateFeedStrings(products, options) ==
  LET formattedProducts == FormattedProducts(products, options)
  IN  StringsResult(formattedProducts,
                    GenerateMetadata(formattedProducts,
                                     MetadataOptions(options)))

\* no file written
NoFiles == <<>>

\* generateFeed after both files are written: the object returned, and the
\* files
FilesResult(formattedProducts, metadata, salesOnly) ==
  [type |-> "returned",
   value |-> [success |-> TRUE,
              feedPath |-> IF salesOnly THEN "top-products-sales.json"
                                        ELSE "top-products.json",
              metadataPath |-> "top-products-meta.json",
              productCount |-> Len(formattedProducts)],
   files |-> [feed |-> Stringify(formattedProducts), metadata |-> metadata]]

\* generateFeed: ensureDirectory or fs.writeFile throws when the output path
\* cannot be written, and the catch block returns the failure
GenerateFeed(products, options, writable) ==
  LET formattedProducts == FormattedProducts(products, options)
  IN  IF writable
        THEN FilesResult(formattedProducts,
                         GenerateMetadata(formattedProducts,
                                          MetadataOptions(options)),
                         Truthy(Get(options, "salesOnly")))
        ELSE [type |-> "returned",
              value |-> [success |-> FALSE, error |-> "EACCES"],
              files |-> NoFiles]

\* the rate from which on the notification reports success
WarningThreshold == <<19, 20>>

\* createSuccessNotification: the summary stats and the status text
CreateSuccessNotification(feedResult) ==
  LET enrichmentMetadata == Get(feedResult.metadata, "enrichmentMetadata")
      totalAsins == Len(feedResult.products)
      enrichmentRate == RateOrElse(enrichmentMetadata, Ratio(<<1, 1>>))
  IN  [text |-> IF AtLeast(<<enrichmentRate.n, enrichmentRate.d>>,
                           WarningThreshold)
                  THEN "Feed Generated Successfully"
                  ELSE "Feed Generated with Warnings",
       totalAsins |-> totalAsins,
       enrichedCount |->
         CountOrElse(enrichmentMetadata, "enrichedCount", totalAsins),
       failedCount |-> CountOrElse(enrichmentMetadata, "failedCount", 0)]

\* the calls explored: every short list of products, as the products of an
\* enrichment with or without failed identifiers, with and without the
\* salesOnly option and the enrichment metadata
InitFeed ==
  /\ ClientIdle
  /\ ret = NoReturn
  /\ \E products \in SeqUpTo(FeedProducts, MaxFeedProducts) :
       \E count \in 0..MaxFailed :
         \E given \in SUBSET {"enrichmentMetadata"} :
           LET metadata ==
                 [k \in given |-> EnrichmentMetadata(products, count)]
           IN  \/ \E salesOnly \in
                       {<<>>, [salesOnly |-> Bool(TRUE)],
                        [salesOnly |-> Bool(FALSE)]} :
                    \/ call = [fn |-> "generateFeedStrings",
                               arg |-> products,
                               options |-> salesOnly @@ metadata]
                    \/ \E writable \in BOOLEAN :
                         call = [fn |-> "generateFeed",
                                 arg |-> products,
                                 options |-> salesOnly @@ metadata,
                                 writable |-> writable]
               \/ call = [fn |-> "createSuccessNotification",
                          arg |-> [products |-> products,
                                   metadata |-> metadata]]

GenerateFeedStringsCall ==
  /\ call.fn = "generateFeedStrings"
  /\ ret = NoReturn
  /\ ret' = Returned(GenerateFeedStrings(call.arg, call.options))
  /\ UNCHANGED <<call, clientVars>>

GenerateFeedCall ==
  /\ call.fn = "generateFeed"
  /\ ret = NoReturn
  /\ ret' = GenerateFeed(call.arg, call.options, call.writable)
  /\ UNCHANGED <<call, clientVars>>

CreateSuccessNotificationCall ==
  /\ call.fn = "createSuccessNotification"
  /\ ret = NoReturn
  /\ ret' = Returned(CreateSuccessNotification(call.arg))
  /\ UNCHANGED <<call, clientVars>>

NextFeed ==
  \/ GenerateFeedStringsCall
  \/ GenerateFeedCall
  \/ CreateSuccessNotificationCall

SpecFeed == InitFeed /\ [][NextFeed]_vars

\* a call of generateFeedStrings or generateFeed has returned a feed
FeedReturned ==
  /\ call.fn \in {"generateFeedStrings", "generateFeed"}
  /\ ret # NoReturn
  /\ ret.value.success

\* the feed and the metadata put out: the strings returned or the files
FeedOutput ==
  IF call.fn = "generateFeedStrings" THEN ret.value.feed ELSE ret.files.feed

FeedMetadata ==
  IF call.fn = "generateFeedStrings" THEN ret.value.metadata
                                     ELSE ret.files.metadata

\* the input products that are on sale, as a caller selects them
\* (products.filter(p => p.is_on_sale)), in input order
SaleProductsOfInput ==
  LET OnSale(p) == Truthy(Get(p, "is_on_sale"))
  IN  SelectSeq(call.arg, OnSale)

\* a feed generated with salesOnly: true
SalesOnlyFeed == FeedReturned /\ Get(call.options, "salesOnly") = Bool(TRUE)

\* the feed holds the sale products in input order, and the totals, the
\* average price and the sale statistics of the metadata are those of the
\* sale products alone
SalesOnlyTotals ==
  LET sale == SaleProductsOfInput
      Priced(p) == Truthy(Get(p, "price"))
  IN  /\ [i \in DOMAIN FeedOutput |-> FeedOutput[i].asin]
           = [i \in DOMAIN sale |-> sale[i].asin]
      /\ FeedMetadata.total_asins = Len(sale)
      /\ FeedMetadata.summary.total_revenue = SumOrZero(sale, "shipped_revenue")
      /\ FeedMetadata.summary.total_earnings = SumOrZero(sale, "earnings")
      /\ FeedMetadata.summary.total_orders = SumOrZero(sale, "ordered_items")
      /\ FeedMetadata.summary.total_clicks = SumOrZero(sale, "clicks")
      /\ FeedMetadata.summary.average_price
           = Rate(SumOrZero(SelectSeq(sale, Priced), "price"),
                  Len(SelectSeq(sale, Priced)))
      /\ FeedMetadata.sales.total_on_sale = Len(sale)
      /\ FeedMetadata.sales.sale_percentage = Rate(Len(sale) * 100, Len(sale))
      /\ FeedMetadata.sales.average_discount_percentage
           = Rate(SumOrZero(sale, "discount_percentage"), Len(sale))

\* C23 as stated: with salesOnly: true the feed is exactly the input
\* products on sale, in input order, and every metadata total, the enriched
\* and failed counts included, is computed over that filtered set only.
C23_SalesOnlyTotalsAndCountsOverFilteredSet ==
  SalesOnlyFeed =>
    /\ SalesOnlyTotals
    /\ FeedMetadata.enriched_count = Len(SaleProductsOfInput)
    /\ FeedMetadata.failed_count = 0

\* C23, amended: with salesOnly: true the feed is exactly the input products
\* on sale, in input order, and total_asins, the sums, the average price and
\* the sale statistics are computed over that filtered set only; the
\* enriched and failed counts are those of the enrichment metadata when it
\* is supplied (a zero enriched count giving way to the number of products
\* in the feed), and the number of products in the feed and 0 otherwise.
C23_SalesOnlyTotalsOverFilteredSet ==
  SalesOnlyFeed =>
    LET enrichmentMetadata == Get(call.options, "enrichmentMetadata")
        supplied == enrichmentMetadata # Undefined
    IN  /\ SalesOnlyTotals
        /\ FeedMetadata.enriched_count
             = IF supplied /\ enrichmentMetadata.enrichedCount > 0
                 THEN enrichmentMetadata.enrichedCount
                 ELSE Len(SaleProductsOfInput)
        /\ FeedMetadata.failed_count
             = IF supplied THEN enrichmentMetadata.failedCount ELSE 0

\* a sales-only feed of one product out of two enriched ones, a third
\* identifier having failed: the counts are those of the enrichment
C23_Witness ==
  /\ SalesOnlyFeed
  /\ Len(call.arg) = 2
  /\ Len(FeedOutput) = 1
  /\ FeedMetadata.total_asins = 1
  /\ FeedMetadata.enriched_count = 2
  /\ FeedMetadata.failed_count = 1

\* the enrichment metadata handed to the call, Undefined when there is none
EnrichmentMetadataOfCall ==
  IF call.fn = "createSuccessNotification"
    THEN Get(call.arg.metadata, "enrichmentMetadata")
    ELSE Get(call.options, "enrichmentMetadata")

\* the call was handed enrichment metadata with a success rate below 95%
BelowThreshold ==
  /\ ret # NoReturn
  /\ EnrichmentMetadataOfCall # Undefined
  /\ ~AtLeast(EnrichmentMetadataOfCall.successRate, WarningThreshold)

\* C24: for every success rate r < 0.95 of the enrichment, r = 0 included,
\* the feed metadata reports enrichment_success_rate = r with the enriched
\* and failed counts of the enrichment, and the success notification built
\* from the same enrichment metadata carries the warning status.
C24_LowSuccessRateSurfaced ==
  BelowThreshold =>
    /\ FeedReturned =>
         /\ FeedMetadata.enrichment_success_rate
              = Ratio(EnrichmentMetadataOfCall.successRate)
         /\ FeedMetadata.enriched_count = EnrichmentMetadataOfCall.enrichedCount
         /\ FeedMetadata.failed_count = EnrichmentMetadataOfCall.failedCount
    /\ call.fn = "createSuccessNotification" =>
         ret.value.text = "Feed Generated with Warnings"

\* the salesOnly filter of the call left no product
NoSaleProduct ==
  /\ call.fn \in {"generateFeedStrings", "generateFeed"}
  /\ ret # NoReturn
  /\ Get(call.options, "salesOnly") = Bool(TRUE)
  /\ SaleProductsOfInput = <<>>

\* the output path of the call can be written (generateFeedStrings writes
\* nothing)
OutputWritable == call.fn = "generateFeed" => call.writable

\* C25: when the salesOnly filter leaves no product, generateFeedStrings and
\* generateFeed neither throw nor return the failure result: they return
\* success true with productCount 0 and an empty feed, which differs from
\* the failure (success false with an error) returned when the feed cannot
\* be written.
C25_EmptySalesFeedIsNotFailure ==
  NoSaleProduct =>
    /\ ret.type = "returned"
    /\ IF OutputWritable
         THEN /\ ret.value.success
              /\ ret.value.productCount = 0
              /\ FeedOutput = <<>>
              /\ "error" \notin DOMAIN ret.value
         ELSE /\ ~ret.value.success
              /\ "error" \in DOMAIN ret.value

\* a sales-only feed of products none of which is on sale has been generated
C25_Witness ==
  /\ NoSaleProduct
  /\ OutputWritable
  /\ call.arg # <<>>
  /\ ret.value.success
  /\ ret.value.productCount = 0

(* ====================================================================== *)
(* Further properties of an enrichAsins run                                *)
(* ====================================================================== *)
\* every await of the run settles: axios.post resolves or rejects within
\* its timeout, and the setTimeout of delay() fires
FairSpec == Spec /\ WF_vars(Next)

\* the run is over: enrichAsins has returned or thrown
Ended == pc \in {"done", "thrown"}

\* the batches are ceil(N / batchSize); the batch at hand has had at least
\* one and at most max(1, retryAttempts) requests; a run that is over has
\* requested every batch and received its final response
RequestsWithinBounds ==
  /\ pc # "start" => Len(batches) = CeilDiv(Len(asins), batchSize)
  /\ Len(requestLog) <= Max(1, retryAttempts)
  /\ pc \in {"await", "backoff", "delay"} => Len(requestLog) >= 1
  /\ (Ended /\ batches # <<>>) => Len(requestLog) >= 1
  /\ Ended => Len(outcomes) = Len(batches)

\* C26: for batchSize >= 1 enrichAsins terminates whatever the responses
\* are, after at most ceil(N / batchSize) x max(1, retryAttempts) requests
\* (at most max(1, retryAttempts) for each of the ceil(N / batchSize)
\* batches) and at least one request for every batch.
C26_TerminatesWithinRequestBounds == []RequestsWithinBounds /\ <>Ended

\* C27: at every point of an enrichAsins run failed and errors have the same
\* length and the i-th error entry's asin is the i-th failed identifier; in
\* the result returned, errors is undefined exactly when failed is empty.
C27_FailedAndErrorsAligned ==
  /\ Len(failed) = Len(errors)
  /\ \A i \in 1..Len(errors) : errors[i].asin = failed[i]
  /\ pc = "done" =>
       /\ result.failed = failed
       /\ result.errors.value = errors
       /\ result.errors.defined <=> result.failed # <<>>

\* a run has returned two failed identifiers, one refused by the remote
\* with an item error and one of a batch whose request failed
C27_Witness ==
  /\ pc = "done"
  /\ Len(result.failed) = 2
  /\ result.errors.defined
  /\ {result.errors.value[i].code : i \in 1..2}
       = {"ItemNotAccessible", "BATCH_FAILED"}

\* the number of times x occurs in the list s
Occurrences(s, x) == Cardinality({i \in 1..Len(s) : s[i] = x})

\* C28: result.products holds only identifiers that were requested, each at
\* most as many times as it was requested, whatever items the responses
\* contain, and the products of an earlier batch precede those of a later
\* one.
C28_OnlyRequestedProducts ==
  pc = "done" =>
    /\ \A id \in Range(AsinsOf(result.products)) :
         Occurrences(AsinsOf(result.products), id) <= Occurrences(asins, id)
    /\ AsinsOf(result.products) = ReturnedItems

\* C29: the successRate enrichAsins returns is a number in [0, 1]: 0 for an
\* empty identifier list (never NaN, the quotient 0 / 0) and never above 1,
\* whatever the responses are.
C29_SuccessRateInUnitInterval ==
  pc = "done" =>
    LET successRate == result.metadata.successRate
    IN  /\ successRate[2] >= 1
        /\ 0 <= successRate[1]
        /\ successRate[1] <= successRate[2]
        /\ asins = <<>> => successRate[1] = 0

\* C30: a list rankProducts returned is not changed by a later rankProducts
\* call on the same products with a different rankBy: every product of the
\* first list keeps the rank the first call gave it, and the input array
\* keeps its order.
C30_RankedListNotChangedByLaterCall ==
  (call.fn = "rankProducts twice" /\ ret # NoReturn) =>
    /\ \A i \in DOMAIN ret.value.first :
         ret.value.firstAfter[i].rank = ret.value.first[i].rank
    /\ AsinsOf(ret.value.input) = AsinsOf(call.arg.products)

====
